---- MODULE Spec2Model ----
(***************************************************************************)
(* The message bus of metallerok/message_bus: the sequential dispatch      *)
(* engine (MessageBus.handle, batch_handle), the handler base classes with *)
(* their before/after hooks and emission buffers, the asynchronous engine  *)
(* (AsyncMessageBus.handle) and the outbox sweep (process_outbox).         *)
(*                                                                         *)
(* One bus instance is modelled.  Its class, its handler registry and its  *)
(* outbox handlers are fixed by the constructor and the setters before any *)
(* dispatch, so Init draws them from small sets.  What a concrete handler  *)
(* does inside _handle (which messages it emits, whether it returns or     *)
(* raises) is user code: every invocation draws it with \E.                *)
(***************************************************************************)
EXTENDS Integers, Sequences, FiniteSets, TLC

(***************************************************************************)
(* Bounds of the model.                                                    *)
(***************************************************************************)
\* messages created in one run (dispatched by the caller or emitted)
MaxMsgs == 3
\* handler invocations in one run
MaxSteps == 3

\* the most messages a caller registers in the outbox
MaxRecords == 2

(***************************************************************************)
(* Message types.  Event and Command are the two variants of Message;      *)
(* "Other" is a value that is neither.                                     *)
(***************************************************************************)
EventTypes == {"X", "Y"}

CommandTypes == {"K"}

OtherTypes == {"Other"}

MsgTypes == EventTypes \cup CommandTypes \cup OtherTypes

Msg(t, i) == [type |-> t, id |-> i]

NoMsg == Msg("none", 0)

IsEvent(m) == m.type \in EventTypes

IsCommand(m) == m.type \in CommandTypes

(***************************************************************************)
(* Handler instances.  O1 and O2 derive from OutboxHandlerABC.             *)
(* Event and command handlers:  A and B derive from EventHandlerABC, G from         *)
(* AsyncEventHandlerABC, f is a bare function, af and ag are bare          *)
(* coroutine functions; KH derives from CommandHandlerABC, AKH from        *)
(* AsyncCommandHandlerABC, kf is a bare function, akf a bare coroutine     *)
(* function.                                                               *)
(***************************************************************************)
EventHandlerObjs == {"A", "B"}

AsyncEventHandlerObjs == {"G"}

EventCallables == {"f"}

\* bare `async def` functions: calling one only creates a coroutine object
AsyncEventCallables == {"af", "ag"}

OutboxHandlerObjs == {"O1", "O2"}

AsyncOutboxHandlerObjs == {"AO1", "AO2"}

CommandHandlerObjs == {"KH"}

AsyncCommandHandlerObjs == {"AKH"}

CommandCallables == {"kf"}

AsyncCommandCallables == {"akf"}

\* the instances that own an emission buffer (_emitted_messages)
BufferOwners ==
  EventHandlerObjs \cup AsyncEventHandlerObjs \cup CommandHandlerObjs
    \cup AsyncCommandHandlerObjs

(***************************************************************************)
(* Values and exceptions.                                                  *)
(***************************************************************************)
\* Python's None
None == [by |-> "None", of |-> 0]

\* the value the user code of handler h returns for message m
Val(h, m) == [by |-> h, of |-> m.id]

\* the coroutine object an async callable returns when it is called
Coroutine(h, m) == [by |-> "coroutine", of |-> m.id]

NoExc == [type |-> "none", by |-> "", of |-> 0]

\* the exception the user code of handler h raises for message m
HandlerError(h, m) == [type |-> "HandlerError", by |-> h, of |-> m.id]

Exc(t, m) == [type |-> t, by |-> "bus", of |-> m.id]

(***************************************************************************)
(* What the user code of one invocation does: the message types it emits   *)
(* with emmit_message, in order, and whether it then raises.               *)
(***************************************************************************)
Emissions == {<<>>, <<"Y">>, <<"K">>, <<"Y", "K">>}

Behaviours == [emit : Emissions, raises : BOOLEAN]

\* the messages an emission creates, numbered from nid
NewMsgs(emit, nid) == [i \in 1..Len(emit) |-> Msg(emit[i], nid + i - 1)]

(***************************************************************************)
(* The handler base classes.  Each operator gives what one call of the     *)
(* public handle does: hooks is the order in which _before_handle, _handle *)
(* and _after_handle ran, failed says whether the user code raised,        *)
(* returned is what the user code returned, result is what handle returned *)
(* to its caller, exc is the exception that left handle, emitted are the   *)
(* messages the user code passed to emmit_message, buffer is the           *)
(* instance's _emitted_messages afterwards.                                *)
(***************************************************************************)
\* the wrapper without its finally: a failing _handle skips the after hook
EventHandlerABC_handle_NoFinally(h, event, beh, buf, nid) ==
  [hooks    |-> IF beh.raises THEN <<"_before_handle", "_handle">>
                ELSE <<"_before_handle", "_handle", "_after_handle">>,
   failed   |-> beh.raises,
   returned |-> IF beh.raises THEN None ELSE Val(h, event),
   result   |-> None,
   exc      |-> IF beh.raises THEN HandlerError(h, event) ELSE NoExc,
   emitted  |-> NewMsgs(beh.emit, nid),
   buffer   |-> buf \o NewMsgs(beh.emit, nid)]

\* EventHandlerABC.handle: before, then _handle inside try, after in finally;
\* the value of _handle is not returned, so the call evaluates to None.
EventHandlerABC_handle(h, event, beh, buf, nid) ==
  [hooks    |-> <<"_before_handle", "_handle", "_after_handle">>,
   failed   |-> beh.raises,
   returned |-> IF beh.raises THEN None ELSE Val(h, event),
   result   |-> None,
   exc      |-> IF beh.raises THEN HandlerError(h, event) ELSE NoExc,
   emitted  |-> NewMsgs(beh.emit, nid),
   buffer   |-> buf \o NewMsgs(beh.emit, nid)]

\* OutboxHandlerABC.handle: the same wrapper, without an emission buffer.
OutboxHandlerABC_handle(h, outbox_message, raises) ==
  [hooks    |-> <<"_before_handle", "_handle", "_after_handle">>,
   failed   |-> raises,
   returned |-> IF raises THEN None ELSE Val(h, outbox_message),
   result   |-> None,
   exc      |-> IF raises THEN HandlerError(h, outbox_message) ELSE NoExc,
   emitted  |-> <<>>]

\* AsyncOutboxHandlerABC.handle, awaited: the same wrapper with awaited hooks.
AsyncOutboxHandlerABC_handle(h, outbox_message, raises) ==
  [hooks    |-> <<"_before_handle", "_handle", "_after_handle">>,
   failed   |-> raises,
   returned |-> IF raises THEN None ELSE Val(h, outbox_message),
   result   |-> None,
   exc      |-> IF raises THEN HandlerError(h, outbox_message) ELSE NoExc,
   emitted  |-> <<>>]

\* CommandHandlerABC.handle is abstract: the user code is the whole call.
CommandHandlerABC_handle(h, cmd, beh, buf, nid) ==
  [hooks    |-> <<"handle">>,
   failed   |-> beh.raises,
   returned |-> IF beh.raises THEN None ELSE Val(h, cmd),
   result   |-> IF beh.raises THEN None ELSE Val(h, cmd),
   exc      |-> IF beh.raises THEN HandlerError(h, cmd) ELSE NoExc,
   emitted  |-> NewMsgs(beh.emit, nid),
   buffer   |-> buf \o NewMsgs(beh.emit, nid)]

\* A bare callable: no hooks, no buffer, nothing emitted.
Callable_call(h, msg, raises) ==
  [hooks    |-> <<"call">>,
   failed   |-> raises,
   returned |-> IF raises THEN None ELSE Val(h, msg),
   result   |-> IF raises THEN None ELSE Val(h, msg),
   exc      |-> IF raises THEN HandlerError(h, msg) ELSE NoExc,
   emitted  |-> <<>>]

(***************************************************************************)
(* State.                                                                  *)
(***************************************************************************)
VARIABLES
  bus,               \* the class of the bus: "MessageBus" or "AsyncMessageBus"
  event_handlers,    \* self._event_handlers: event type -> list of handlers
  command_handlers,  \* self._command_handlers: command type -> handler
  emitted_messages,  \* handler instance -> its _emitted_messages list
  pc,                \* where the running call stands
  top,               \* the public operation the caller invoked
  queue,             \* handle: the local queue
  results,           \* handle: the local results
  message,           \* handle: the message popped last
  hidx,              \* _handle_event: index of the next handler of the for loop
  event_results,     \* _handle_event: the local results
  coroutines,        \* AsyncMessageBus._handle_event: the local coroutines
  tasks,             \* the tasks asyncio.gather created, in creation order
  gathered,          \* the indices in tasks of the gather being awaited
  context,           \* self.context: the keys it holds
  outbox_handlers,   \* self._outbox_handlers
  outbox_messages,   \* process_outbox: the list list_unprocessed returned
  ridx,              \* process_outbox: index of the record of the outer loop
  oidx,              \* process_outbox: index of the handler of the inner loop
  saves,             \* number of calls of the repository's save
  closed,            \* number of close() calls made on context["db_session"]
  ctx_log,           \* history: the context each handler invocation was passed
  messages,          \* batch_handle: the input list
  bidx,              \* batch_handle: index of the next input message
  batch_results,     \* batch_handle: the local results
  ret,               \* how the last public call ended, as its caller sees it
  nextId,            \* id of the next message object created
  hlog,              \* history: every handler invocation, in order
  dispatched,        \* history: the messages handle was called with in this public call
  enq,               \* history: every message appended to the queue of this handle call
  npop,              \* history: number of messages popped so far, over all calls
  call0,             \* history: npop when the current public call began
  store,             \* the outbox repository: the records _add stored, in order
  adds,              \* number of calls of the repository's add
  uuids,             \* number of calls of uuid.uuid4
  id_arg,            \* register_outbox_message: the id argument of the last call
  save_errors,       \* outbox repository: the save() calls that raised
  max_concurrency,   \* AsyncMessageBus.batch_handle: kwargs["max_concurrency"]
  work_queue,        \* batch_handle: the indices waiting in the asyncio.Queue q
  unfinished_tasks,  \* batch_handle: q's count of items not yet task_done
  workers,           \* batch_handle: the worker tasks
  batch_slots,       \* batch_handle: the list results, one slot per input message
  caller,            \* batch_handle: where the caller's coroutine stands
  cancellation,      \* whether the caller's task was cancelled
  pulled,            \* history: the entries in the order the workers pulled them
  finished,          \* history: the entries in the order their cascades ended
  ser_in,            \* serialize: the message object it is called on
  ser_out,           \* serialize: what the call returned
  seq_run,           \* comparison: what the handle call of the sequential bus did
  frames             \* batch_handle: which worker runs, and the locals of the suspended handle calls

vars ==
  <<bus, event_handlers, command_handlers, emitted_messages, pc, top, queue,
    results, message, hidx, event_results, coroutines, tasks, gathered, context, ctx_log,
    closed, outbox_handlers, outbox_messages, ridx, oidx, saves, messages, bidx,
    batch_results, ret, nextId, hlog, dispatched, enq, npop, call0, store, adds,
    uuids, id_arg, save_errors, max_concurrency, work_queue, unfinished_tasks, workers,
    batch_slots, caller, cancellation, pulled, finished, ser_in, ser_out,
    seq_run, frames>>

(***************************************************************************)
(* Registries the constructor can be given.                                *)
(***************************************************************************)
\* the default of the constructor: no handler at all
EmptyRegistry == [events |-> <<>>, commands |-> <<>>, outbox |-> <<>>]

\* registries a caller builds: lists of one, two and three handlers, objects
\* and callables in both orders, an instance shared by two event types, an
\* empty list, an event type and a command type that are no key
Registries ==
  { EmptyRegistry,
    [events   |-> [t \in {"X"} |-> <<"A">>],
     commands |-> [t \in {"K"} |-> "KH"],
     outbox   |-> <<"O1">>],
    [events   |-> [t \in {"X", "Y"} |-> IF t = "X" THEN <<"A">> ELSE <<"B">>],
     commands |-> [t \in {"K"} |-> "kf"],
     outbox   |-> <<>>],
    [events   |-> [t \in {"X", "Y"} |-> IF t = "X" THEN <<"f", "A">> ELSE <<>>],
     commands |-> <<>>,
     outbox   |-> <<>>],
    [events   |-> [t \in {"X", "Y"} |-> IF t = "X" THEN <<"A", "B">> ELSE <<"A">>],
     commands |-> [t \in {"K"} |-> "KH"],
     outbox   |-> <<"O1", "O2">>],
    [events   |-> [t \in {"X", "Y"} |-> IF t = "X" THEN <<"A", "f", "B">> ELSE <<"B">>],
     commands |-> [t \in {"K"} |-> "KH"],
     outbox   |-> <<"O2">>] }

\* registries built for the asynchronous bus
AsyncRegistries ==
  { EmptyRegistry,
    [events   |-> [t \in {"X", "Y"} |-> IF t = "X" THEN <<"af", "ag">> ELSE <<"af">>],
     commands |-> [t \in {"K"} |-> "kf"],
     outbox   |-> <<>>],
    [events   |-> [t \in {"X", "Y"} |-> IF t = "X" THEN <<"A", "af">> ELSE <<"af", "ag">>],
     commands |-> [t \in {"K"} |-> "KH"],
     outbox   |-> <<"AO1", "AO2">>],
    [events   |-> [t \in {"X", "Y"} |-> IF t = "X" THEN <<"af", "A">> ELSE <<"G", "af">>],
     commands |-> [t \in {"K"} |-> "akf"],
     outbox   |-> <<"AO1">>],
    [events   |-> [t \in {"X"} |-> <<"G">>],
     commands |-> [t \in {"K"} |-> "AKH"],
     outbox   |-> <<>>] }

\* id=None: no identifier is supplied
NoId == 0

\* no message object has been made, and serialize has not returned
NoObject == [made |-> FALSE, fields |-> <<>>]

NoOutput == [done |-> FALSE, value |-> <<>>]

\* the locals of a handle call that is not suspended: nothing is kept
NoFrame == [live |-> FALSE, queue |-> <<>>, results |-> <<>>, message |-> NoMsg,
            gathered |-> {}, enq |-> <<>>]

\* no worker runs and no handle call is suspended
NoFrames == [cur |-> 0, saved |-> [w \in 1..MaxMsgs |-> NoFrame]]

\* no handle call of the sequential bus has been kept for a comparison
NoRun == [done |-> FALSE, enq |-> <<>>, outcomes |-> <<>>, hlog |-> <<>>]

NoRet == [kind |-> "none", value |-> <<>>, exc |-> NoExc]

Returned(v) == [kind |-> "returned", value |-> v, exc |-> NoExc]

Raised(e) == [kind |-> "raised", value |-> <<>>, exc |-> e]

Init ==
  /\ \/ /\ bus = "MessageBus"
        /\ context = {}
        /\ \E reg \in Registries :
             /\ event_handlers = reg.events
             /\ command_handlers = reg.commands
             /\ outbox_handlers = reg.outbox
     \/ /\ bus = "AsyncMessageBus"
        /\ context \in {{}, {"db_session"}}
        /\ \E reg \in AsyncRegistries :
             /\ event_handlers = reg.events
             /\ command_handlers = reg.commands
             /\ outbox_handlers = reg.outbox
  /\ coroutines = <<>>
  /\ tasks = <<>>
  /\ gathered = {}
  /\ closed = 0
  /\ ctx_log = <<>>
  /\ outbox_messages = <<>>
  /\ ridx = 1
  /\ oidx = 1
  /\ saves = 0
  /\ emitted_messages = [h \in BufferOwners |-> <<>>]
  /\ pc = "idle"
  /\ top = "none"
  /\ queue = <<>>
  /\ results = <<>>
  /\ message = NoMsg
  /\ hidx = 1
  /\ event_results = <<>>
  /\ messages = <<>>
  /\ bidx = 1
  /\ batch_results = <<>>
  /\ ret = NoRet
  /\ nextId = 1
  /\ hlog = <<>>
  /\ dispatched = <<>>
  /\ enq = <<>>
  /\ npop = 0
  /\ call0 = 0
  /\ store = <<>>
  /\ adds = 0
  /\ uuids = 0
  /\ id_arg = NoId
  /\ save_errors = 0
  /\ max_concurrency = 0
  /\ work_queue = <<>>
  /\ unfinished_tasks = 0
  /\ workers = <<>>
  /\ batch_slots = <<>>
  /\ caller = "none"
  /\ cancellation = "no"
  /\ pulled = <<>>
  /\ finished = <<>>
  /\ ser_in = NoObject
  /\ ser_out = NoOutput
  /\ seq_run = NoRun
  /\ frames = NoFrames

(***************************************************************************)
(* Pieces of the engines' code that the actions below share.               *)
(***************************************************************************)
\* a queue used as a stack: pop() takes the message enqueued last
DequeueLast(q) == [head |-> q[Len(q)], rest |-> SubSeq(q, 1, Len(q) - 1)]

\* queue.pop(0): the message at the head, and the rest
Dequeue(q) == [head |-> Head(q), rest |-> Tail(q)]

\* queue.extend(msgs): msgs go behind everything already waiting
Enqueue(q, msgs) == q \o msgs

\* the dict the sequential _handle_event appends for one handler that returned
EventOutcome(event, result) == [key |-> "event", msg |-> event, result |-> result]

\* the dict the sequential _handle_command returns
CommandOutcome(cmd, result) == [key |-> "command", msg |-> cmd, result |-> result]

\* `break` in place of `continue`: the first failure ends the for loop
BreakAfterError(i, n) == n + 1

\* _handle_event, except branch: `continue` goes on with the next handler of
\* the list (i is the index of the handler that raised, n the list's length)
NextHandlerAfterError(i, n) == i + 1

\* one entry of the history of handler invocations
LogEntryAt(h, m, r, drained, pop) ==
  [h |-> h, m |-> m, pop |-> pop, hooks |-> r.hooks, failed |-> r.failed,
   returned |-> r.returned,
   result |-> r.result, exc |-> r.exc, emitted |-> r.emitted, drained |-> drained]

LogEntry(h, m, r, drained) == LogEntryAt(h, m, r, drained, npop)

\* the keys one handler invocation writes into the context it is passed
ContextWrites == {{}, {"k"}}

\* the invocation is passed a copy: what it writes is lost
ContextCopied(ctx, keys) == ctx

\* context=self.context passes the dict itself: what the invocation writes
\* is in self.context afterwards
ContextAfter(ctx, keys) == ctx \cup keys

\* one handler invocation with context=self.context
PassContext(h, keys) ==
  /\ context' = ContextAfter(context, keys)
  /\ ctx_log' = Append(ctx_log, [h |-> h, got |-> context, wrote |-> keys])

\* the behaviours an invocation can still show: the run creates at most
\* MaxMsgs message objects
CanBehave(beh) == nextId + Len(beh.emit) - 1 <= MaxMsgs

\* the error of one entry is swallowed by batch_handle, which goes on with
\* the next input message
RaiseOrNextBatchEntry(e) ==
  /\ ret' = (IF top = "batch_handle" THEN ret ELSE Raised(e))
  /\ pc' = (IF top = "batch_handle" THEN "batch" ELSE "idle")
  /\ queue' = <<>>
  /\ results' = <<>>
  /\ event_results' = <<>>
  /\ coroutines' = <<>>
  /\ gathered' = {}
  /\ hidx' = 1
  /\ messages' = messages
  /\ bidx' = (IF top = "batch_handle" THEN bidx + 1 ELSE 1)
  /\ batch_results' = batch_results

\* an exception leaves the public call: its frames and their locals are gone
\* (messages is the caller's list)
RaiseToCaller(e) ==
  /\ ret' = Raised(e)
  /\ pc' = "idle"
  /\ queue' = <<>>
  /\ results' = <<>>
  /\ event_results' = <<>>
  /\ coroutines' = <<>>
  /\ gathered' = {}
  /\ hidx' = 1
  /\ messages' = messages
  /\ bidx' = 1
  /\ batch_results' = <<>>

registry == <<bus, event_handlers, command_handlers, outbox_handlers>>

\* the outbox repository and what register_outbox_message leaves
codec == <<ser_in, ser_out>>

repo == <<store, adds, uuids, id_arg, save_errors>>

\* the worker pool of the asynchronous batch_handle
pool ==
  <<max_concurrency, work_queue, unfinished_tasks, workers, batch_slots, caller,
    cancellation, pulled, finished>>

outbox == <<outbox_messages, ridx, oidx, saves>>

\* what outlives a handle call on the bus and on the event loop
loop_state == <<tasks, context, closed, ctx_log>>

async_locals == <<coroutines, gathered, loop_state>>

batch_locals == <<messages, bidx, batch_results>>

(***************************************************************************)
(* MessageBus.handle: results = [], queue = [message].                     *)
(***************************************************************************)
Handle(t) ==
  /\ pc = "idle"
  /\ nextId <= MaxMsgs
  /\ top' = "handle"
  /\ queue' = <<Msg(t, nextId)>>
  /\ enq' = <<Msg(t, nextId)>>
  /\ results' = <<>>
  /\ nextId' = nextId + 1
  /\ ret' = NoRet
  /\ call0' = npop
  /\ pc' = "loop"
  /\ dispatched' = <<Msg(t, nextId)>>
  /\ UNCHANGED <<registry, codec, seq_run, frames, repo, pool, outbox, async_locals, emitted_messages, message, hidx, event_results,
                 batch_locals, hlog, npop>>

(***************************************************************************)
(* handle, the while loop: message = queue.pop(0) and the isinstance       *)
(* dispatch.                                                               *)
(***************************************************************************)
\* an Event whose type is a key of _event_handlers: the for loop begins
PopEvent ==
  /\ pc = "loop"
  /\ queue # <<>>
  /\ IsEvent(Dequeue(queue).head)
  /\ Dequeue(queue).head.type \in DOMAIN event_handlers
  /\ message' = Dequeue(queue).head
  /\ queue' = Dequeue(queue).rest
  /\ npop' = npop + 1
  /\ hidx' = 1
  /\ event_results' = <<>>
  /\ pc' = "event"
  /\ UNCHANGED <<registry, codec, seq_run, frames, repo, pool, outbox, dispatched, async_locals, emitted_messages, top, results, batch_locals, ret,
                 nextId, hlog, enq, call0>>

\* the KeyError of the lookup is not caught and ends the handle call
PopUnregisteredEventRaising ==
  /\ pc = "loop"
  /\ queue # <<>>
  /\ IsEvent(Dequeue(queue).head)
  /\ Dequeue(queue).head.type \notin DOMAIN event_handlers
  /\ message' = Dequeue(queue).head
  /\ npop' = npop + 1
  /\ RaiseToCaller(Exc("KeyError", Dequeue(queue).head))
  /\ UNCHANGED <<registry, codec, seq_run, frames, repo, pool, outbox, dispatched, loop_state, emitted_messages, top, nextId, hlog, enq, call0>>

\* the lookup of a missing type puts the type into the mapping, with no
\* handler, as a defaultdict does
PopUnregisteredEventInserting ==
  /\ pc = "loop"
  /\ queue # <<>>
  /\ IsEvent(Dequeue(queue).head)
  /\ Dequeue(queue).head.type \notin DOMAIN event_handlers
  /\ message' = Dequeue(queue).head
  /\ queue' = Dequeue(queue).rest
  /\ npop' = npop + 1
  /\ pc' = "loop"
  /\ event_handlers' = [t \in DOMAIN event_handlers \cup {Dequeue(queue).head.type} |->
                          IF t \in DOMAIN event_handlers THEN event_handlers[t] ELSE <<>>]
  /\ UNCHANGED <<bus, command_handlers, outbox_handlers, codec, seq_run, frames, repo, pool, outbox, dispatched, async_locals, emitted_messages, top, results, hidx, event_results,
                 batch_locals, ret, nextId, hlog, enq, call0>>

\* an Event whose type is no key: KeyError, logged, _handle_event returns its
\* empty results and handle extends results by nothing
PopUnregisteredEvent ==
  /\ pc = "loop"
  /\ queue # <<>>
  /\ IsEvent(Dequeue(queue).head)
  /\ Dequeue(queue).head.type \notin DOMAIN event_handlers
  /\ message' = Dequeue(queue).head
  /\ queue' = Dequeue(queue).rest
  /\ npop' = npop + 1
  /\ pc' = "loop"
  /\ UNCHANGED <<registry, codec, seq_run, frames, repo, pool, outbox, dispatched, async_locals, emitted_messages, top, results, hidx, event_results,
                 batch_locals, ret, nextId, hlog, enq, call0>>

PopCommand ==
  /\ pc = "loop"
  /\ queue # <<>>
  /\ IsCommand(Dequeue(queue).head)
  /\ message' = Dequeue(queue).head
  /\ queue' = Dequeue(queue).rest
  /\ npop' = npop + 1
  /\ pc' = "command"
  /\ UNCHANGED <<registry, codec, seq_run, frames, repo, pool, outbox, dispatched, async_locals, emitted_messages, top, results, hidx, event_results,
                 batch_locals, ret, nextId, hlog, enq, call0>>

\* neither Event nor Command: raise Exception
PopOther ==
  /\ pc = "loop"
  /\ queue # <<>>
  /\ ~IsEvent(Dequeue(queue).head)
  /\ ~IsCommand(Dequeue(queue).head)
  /\ message' = Dequeue(queue).head
  /\ npop' = npop + 1
  /\ RaiseToCaller(Exc("Exception", Dequeue(queue).head))
  /\ UNCHANGED <<registry, codec, seq_run, frames, repo, pool, outbox, dispatched, loop_state, emitted_messages, top, nextId, hlog, enq, call0>>

\* the outcome dict is appended whether the handler returned or raised
EventStepAppendingAlways(h, r, buf) ==
  LET ok == r.exc = NoExc
      drained == IF ok THEN buf ELSE <<>>
  IN  /\ queue' = (IF ok THEN Enqueue(queue, buf) ELSE queue)
      /\ enq' = enq \o drained
      /\ event_results' = Append(event_results, EventOutcome(message, r.result))
      /\ hidx' = hidx + 1
      /\ hlog' = Append(hlog, LogEntry(h, message, r, drained))

(***************************************************************************)
(* MessageBus._handle_event: one iteration of `for handler in handlers`.   *)
(* An EventHandlerABC instance is called through handle and its            *)
(* emitted_messages list is appended to the queue; anything else is called *)
(* as a function.  The outcome dict is appended when the call returned; an *)
(* exception is logged and the loop continues.                             *)
(***************************************************************************)
EventStepWith(h, r, buf) ==
  LET ok == r.exc = NoExc
      drained == IF ok THEN buf ELSE <<>>
  IN  /\ queue' = (IF ok THEN Enqueue(queue, buf) ELSE queue)
      /\ enq' = enq \o drained
      /\ event_results' =
           (IF ok THEN Append(event_results, EventOutcome(message, r.result))
                  ELSE event_results)
      /\ hidx' =
           (IF ok THEN hidx + 1
                  ELSE NextHandlerAfterError(hidx, Len(event_handlers[message.type])))
      /\ hlog' = Append(hlog, LogEntry(h, message, r, drained))

HandleEventObjectWriting(keys) ==
  /\ pc = "event"
  /\ bus = "MessageBus"
  /\ hidx <= Len(event_handlers[message.type])
  /\ Len(hlog) < MaxSteps
  /\ LET h == event_handlers[message.type][hidx] IN
       /\ h \in EventHandlerObjs
       /\ \E beh \in Behaviours :
            /\ CanBehave(beh)
            /\ LET r == EventHandlerABC_handle(h, message, beh, emitted_messages[h], nextId)
               IN  /\ emitted_messages' = [emitted_messages EXCEPT ![h] = r.buffer]
                   /\ nextId' = nextId + Len(beh.emit)
                   /\ EventStepWith(h, r, r.buffer)
                   /\ PassContext(h, keys)
  /\ UNCHANGED <<registry, codec, seq_run, frames, repo, pool, outbox, dispatched, coroutines, gathered, tasks, closed, pc, top,
                 results, message, batch_locals, ret, npop, call0>>

\* an EventHandlerABC instance that leaves the context as it is
HandleEventObject == HandleEventObjectWriting({})

HandleEventCallableWriting(keys) ==
  /\ pc = "event"
  /\ bus = "MessageBus"
  /\ hidx <= Len(event_handlers[message.type])
  /\ Len(hlog) < MaxSteps
  /\ LET h == event_handlers[message.type][hidx] IN
       /\ h \in EventCallables
       /\ \E raises \in BOOLEAN :
            EventStepWith(h, Callable_call(h, message, raises), <<>>)
       /\ PassContext(h, keys)
  /\ UNCHANGED <<registry, codec, seq_run, frames, repo, pool, outbox, dispatched, coroutines, gathered, tasks, closed,
                 emitted_messages, pc, top, results, message, batch_locals, ret, nextId,
                 npop, call0>>

\* a function that leaves the context as it is
HandleEventCallable == HandleEventCallableWriting({})

\* the for loop is over: `return results`, and handle extends its results
HandleEventReturn ==
  /\ pc = "event"
  /\ bus = "MessageBus"
  /\ hidx > Len(event_handlers[message.type])
  /\ results' = results \o event_results
  /\ event_results' = <<>>
  /\ hidx' = 1
  /\ pc' = "loop"
  /\ UNCHANGED <<registry, codec, seq_run, frames, repo, pool, outbox, dispatched, async_locals, emitted_messages, top, queue, message, batch_locals,
                 ret, nextId, hlog, enq, npop, call0>>

(***************************************************************************)
(* MessageBus._handle_command, and handle appending what it returns.       *)
(***************************************************************************)
\* the missing handler is treated like a missing event handler: nothing is
\* raised and the loop goes on
HandleCommandNotFoundSkipping ==
  /\ pc = "command"
  /\ bus = "MessageBus"
  /\ message.type \notin DOMAIN command_handlers
  /\ pc' = "loop"
  /\ UNCHANGED <<ret, queue, results, event_results, coroutines, gathered, hidx, batch_locals>>
  /\ UNCHANGED <<registry, codec, seq_run, frames, repo, pool, outbox, dispatched, loop_state, emitted_messages, top, message, nextId, hlog, enq,
                 npop, call0>>

\* the exceptions the missing handler can end in: the assert fails with
\* AssertionError; under python -O the assert is compiled away and calling
\* the None that .get returned fails with TypeError
NotFoundErrors == {"AssertionError", "TypeError"}

\* no handler for type(cmd): .get gives None, the exception is logged and
\* re-raised
HandleCommandNotFound ==
  /\ pc = "command"
  /\ bus = "MessageBus"
  /\ message.type \notin DOMAIN command_handlers
  /\ \E t \in NotFoundErrors : RaiseToCaller(Exc(t, message))
  /\ UNCHANGED <<registry, codec, seq_run, frames, repo, pool, outbox, dispatched, loop_state, emitted_messages, top, message, nextId, hlog, enq,
                 npop, call0>>

\* what the invocation r of the command handler h leads to: the outcome is
\* appended and the loop goes on, or the exception is logged and, when
\* reraise, raised again
CommandStepWith(h, r, buf, reraise, outcome) ==
  LET ok == r.exc = NoExc
      drained == IF ok THEN buf ELSE <<>>
  IN  /\ hlog' = Append(hlog, LogEntry(h, message, r, drained))
      /\ enq' = enq \o drained
      /\ IF ok \/ ~reraise
           THEN /\ queue' = (IF ok THEN Enqueue(queue, buf) ELSE queue)
                /\ results' = Append(results, outcome)
                /\ pc' = "loop"
                /\ UNCHANGED <<coroutines, gathered, event_results, hidx, batch_locals, ret>>
           ELSE RaiseToCaller(r.exc)

HandleCommandObjectWith(reraise, keys) ==
  /\ pc = "command"
  /\ bus = "MessageBus"
  /\ message.type \in DOMAIN command_handlers
  /\ Len(hlog) < MaxSteps
  /\ LET h == command_handlers[message.type] IN
       /\ h \in CommandHandlerObjs
       /\ \E beh \in Behaviours :
            /\ CanBehave(beh)
            /\ LET r == CommandHandlerABC_handle(h, message, beh, emitted_messages[h], nextId)
               IN  /\ emitted_messages' = [emitted_messages EXCEPT ![h] = r.buffer]
                   /\ nextId' = nextId + Len(beh.emit)
                   /\ CommandStepWith(h, r, r.buffer, reraise, CommandOutcome(message, r.result))
                   /\ PassContext(h, keys)
  /\ UNCHANGED <<registry, codec, seq_run, frames, repo, pool, outbox, dispatched, tasks, closed, top, message, npop, call0>>

HandleCommandObjectSwallowing == HandleCommandObjectWith(FALSE, {})

HandleCommandObject == HandleCommandObjectWith(TRUE, {})

HandleCommandCallableWriting(keys) ==
  /\ pc = "command"
  /\ bus = "MessageBus"
  /\ message.type \in DOMAIN command_handlers
  /\ Len(hlog) < MaxSteps
  /\ LET h == command_handlers[message.type] IN
       /\ h \in CommandCallables
       /\ \E raises \in BOOLEAN :
            LET r == Callable_call(h, message, raises)
            IN  CommandStepWith(h, r, <<>>, TRUE, CommandOutcome(message, r.result))
       /\ PassContext(h, keys)
  /\ UNCHANGED <<registry, codec, seq_run, frames, repo, pool, outbox, dispatched, tasks, closed, emitted_messages, top, message,
                 nextId, npop, call0>>

\* a function that leaves the context as it is
HandleCommandCallable == HandleCommandCallableWriting({})

(***************************************************************************)
(* AsyncMessageBus._handle_event, the for loop that builds `coroutines`.   *)
(* The loop holds no await, so an iteration runs without interleaving.     *)
(***************************************************************************)
\* the entry of `coroutines` that a call returning None leaves
NoneEntry == [h |-> "None", m |-> NoMsg]

\* an EventHandlerABC instance: its synchronous handle runs to its end
\* here and returns None, which is appended to coroutines; then the
\* instance's emitted_messages are appended to the queue.  An exception is
\* logged and the loop continues.
AsyncLaunchObject ==
  /\ pc = "event"
  /\ bus = "AsyncMessageBus"
  /\ hidx <= Len(event_handlers[message.type])
  /\ Len(hlog) < MaxSteps
  /\ LET h == event_handlers[message.type][hidx] IN
       /\ h \in EventHandlerObjs
       /\ \E beh \in Behaviours :
            /\ CanBehave(beh)
            /\ LET r == EventHandlerABC_handle(h, message, beh, emitted_messages[h], nextId)
                   ok == r.exc = NoExc
                   drained == IF ok THEN r.buffer ELSE <<>>
               IN  /\ emitted_messages' = [emitted_messages EXCEPT ![h] = r.buffer]
                   /\ nextId' = nextId + Len(beh.emit)
                   /\ coroutines' = (IF ok THEN Append(coroutines, NoneEntry) ELSE coroutines)
                   /\ queue' = (IF ok THEN Enqueue(queue, r.buffer) ELSE queue)
                   /\ enq' = enq \o drained
                   /\ hlog' = Append(hlog, LogEntry(h, message, r, drained))
  /\ hidx' = hidx + 1
  /\ UNCHANGED <<registry, codec, seq_run, frames, repo, pool, outbox, dispatched, gathered, loop_state, pc, top, results, message,
                 event_results, batch_locals, ret, npop, call0>>

\* an AsyncEventHandlerABC instance is no EventHandlerABC, so it is called as
\* a function: TypeError (the object is not callable), logged, continue
AsyncLaunchNotCallable ==
  /\ pc = "event"
  /\ bus = "AsyncMessageBus"
  /\ hidx <= Len(event_handlers[message.type])
  /\ event_handlers[message.type][hidx] \in AsyncEventHandlerObjs
  /\ hidx' = hidx + 1
  /\ UNCHANGED <<registry, codec, seq_run, frames, repo, pool, outbox, dispatched, async_locals, emitted_messages, pc, top, queue, results,
                 message, event_results, batch_locals, ret, nextId, hlog, enq,
                 npop, call0>>

\* a coroutine function: the call creates a coroutine, nothing runs yet
AsyncLaunchCallable ==
  /\ pc = "event"
  /\ bus = "AsyncMessageBus"
  /\ hidx <= Len(event_handlers[message.type])
  /\ event_handlers[message.type][hidx] \in AsyncEventCallables
  /\ coroutines' =
       Append(coroutines, [h |-> event_handlers[message.type][hidx], m |-> message])
  /\ hidx' = hidx + 1
  /\ UNCHANGED <<registry, codec, seq_run, frames, repo, pool, outbox, dispatched, gathered, loop_state, emitted_messages, pc, top, queue,
                 results, message, event_results, batch_locals, ret, nextId, hlog,
                 enq, npop, call0>>

(***************************************************************************)
(* AsyncMessageBus._handle_event: the gather of the coroutines, awaited.    *)
(***************************************************************************)
\* index of the first entry of cs that is no awaitable, Len(cs) + 1 if none
FirstNone(cs) ==
  IF \E i \in 1..Len(cs) : cs[i] = NoneEntry
    THEN CHOOSE i \in 1..Len(cs) :
           /\ cs[i] = NoneEntry
           /\ \A j \in 1..(i - 1) : cs[j] # NoneEntry
    ELSE Len(cs) + 1

\* gather wraps its arguments into tasks one after another, in order
NewTasks(cs, n) ==
  [i \in 1..n |-> [h |-> cs[i].h, m |-> cs[i].m, pop |-> npop, st |-> "pending",
                   result |-> None]]

\* an argument is None: gather raises TypeError at that argument; the except
\* branch logs it and returns the empty tuple.  The coroutines before it are
\* already tasks of the event loop; those after it are never run.
AsyncGatherTypeError ==
  /\ pc = "event"
  /\ bus = "AsyncMessageBus"
  /\ hidx > Len(event_handlers[message.type])
  /\ FirstNone(coroutines) <= Len(coroutines)
  /\ tasks' = tasks \o NewTasks(coroutines, FirstNone(coroutines) - 1)
  /\ coroutines' = <<>>
  /\ hidx' = 1
  /\ pc' = "loop"
  /\ UNCHANGED <<registry, codec, seq_run, frames, repo, pool, outbox, dispatched, gathered, context, ctx_log, closed, emitted_messages, top, queue,
                 results, message, event_results, batch_locals, ret, nextId, hlog,
                 enq, npop, call0>>

\* the session of the context is closed when the key is there
CloseSession(n) == IF "db_session" \in context THEN n + 1 ELSE n

\* no coroutine at all: gather() is done at once, results is the empty tuple
AsyncGatherEmpty ==
  /\ pc = "event"
  /\ bus = "AsyncMessageBus"
  /\ hidx > Len(event_handlers[message.type])
  /\ coroutines = <<>>
  /\ closed' = CloseSession(closed)
  /\ hidx' = 1
  /\ pc' = "loop"
  /\ UNCHANGED <<registry, codec, seq_run, frames, repo, pool, outbox, dispatched, coroutines, tasks, gathered, context, ctx_log, emitted_messages,
                 top, queue, results, message, event_results, batch_locals, ret,
                 nextId, hlog, enq, npop, call0>>

\* every argument is a coroutine: all become tasks and handle is suspended
AsyncGatherAwait ==
  /\ pc = "event"
  /\ bus = "AsyncMessageBus"
  /\ hidx > Len(event_handlers[message.type])
  /\ coroutines # <<>>
  /\ FirstNone(coroutines) > Len(coroutines)
  /\ tasks' = tasks \o NewTasks(coroutines, Len(coroutines))
  /\ gathered' = (Len(tasks) + 1)..(Len(tasks) + Len(coroutines))
  /\ coroutines' = <<>>
  /\ hidx' = 1
  /\ pc' = "await"
  /\ UNCHANGED <<registry, codec, seq_run, frames, repo, pool, outbox, dispatched, context, ctx_log, closed, emitted_messages, top, queue, results,
                 message, event_results, batch_locals, ret, nextId, hlog, enq,
                 npop, call0>>

\* the event loop runs a task while the caller's coroutine is suspended (in
\* the gather, or a worker's in batch_handle) or has returned: the body of the
\* coroutine function returns or raises
TaskRun(i) ==
  /\ pc \in {"await", "idle", "pool"}
  /\ tasks[i].st = "pending"
  /\ Len(hlog) < MaxSteps
  /\ \E raises \in BOOLEAN :
       LET r == Callable_call(tasks[i].h, tasks[i].m, raises)
       IN  /\ tasks' = [tasks EXCEPT ![i].st = IF raises THEN "failed" ELSE "done",
                                     ![i].result = r.result]
           /\ hlog' = Append(hlog, LogEntryAt(tasks[i].h, tasks[i].m, r, <<>>, tasks[i].pop))
  /\ UNCHANGED <<registry, codec, seq_run, frames, repo, pool, outbox, dispatched, coroutines, gathered, context, ctx_log, closed, emitted_messages,
                 pc, top, queue, results, message, hidx, event_results,
                 batch_locals, ret, nextId, enq, npop, call0>>

\* a result of the asynchronous engine: the bare value
RawOutcome(m, result) == [key |-> "raw", msg |-> m, result |-> result]

\* the results of the tasks of this queue step in the order the tasks ended
GatherResultsAsCompleted(ts, idxs) ==
  LET ended == SelectSeq(hlog, LAMBDA e : e.pop = npop /\ ~e.failed)
  IN  [i \in 1..Len(ended) |-> RawOutcome(ended[i].m, ended[i].result)]

\* the results of the gathered tasks, in the order of the arguments
RECURSIVE GatherResults(_, _)
GatherResults(ts, idxs) ==
  IF idxs = {} THEN <<>>
  ELSE LET i == CHOOSE j \in idxs : \A k \in idxs : j <= k
       IN  <<RawOutcome(ts[i].m, ts[i].result)>> \o GatherResults(ts, idxs \ {i})

\* every gathered task is done: the tuple of their results is returned after
\* the session was closed, and handle extends its results
AsyncGatherDone ==
  /\ pc = "await"
  /\ \A i \in gathered : tasks[i].st = "done"
  /\ results' = results \o GatherResults(tasks, gathered)
  /\ closed' = CloseSession(closed)
  /\ gathered' = {}
  /\ pc' = "loop"
  /\ UNCHANGED <<registry, codec, seq_run, frames, repo, pool, outbox, dispatched, coroutines, tasks, context, ctx_log, emitted_messages, top, queue,
                 message, hidx, event_results, batch_locals, ret, nextId, hlog,
                 enq, npop, call0>>

\* gather(..., return_exceptions=True) would wait for every task and give the
\* results of those that are done
AsyncGatherFailedKeepingDone ==
  /\ pc = "await"
  /\ \E i \in gathered : tasks[i].st = "failed"
  /\ \A i \in gathered : tasks[i].st # "pending"
  /\ results' = results \o GatherResults(tasks, {i \in gathered : tasks[i].st = "done"})
  /\ gathered' = {}
  /\ pc' = "loop"
  /\ UNCHANGED <<registry, codec, seq_run, frames, repo, pool, outbox, dispatched, coroutines, tasks, context, ctx_log, closed, emitted_messages,
                 top, queue, message, hidx, event_results, batch_locals,
                 ret, nextId, hlog, enq, npop, call0>>

\* a gathered task failed: gather raises its exception into _handle_event
\* as soon as handle is resumed; it is logged and the empty tuple returned.
\* The other tasks are not cancelled.
AsyncGatherFailed ==
  /\ pc = "await"
  /\ \E i \in gathered : tasks[i].st = "failed"
  /\ gathered' = {}
  /\ pc' = "loop"
  /\ UNCHANGED <<registry, codec, seq_run, frames, repo, pool, outbox, dispatched, coroutines, tasks, context, ctx_log, closed, emitted_messages,
                 top, queue, results, message, hidx, event_results, batch_locals,
                 ret, nextId, hlog, enq, npop, call0>>

(***************************************************************************)
(* AsyncMessageBus._handle_command: a plain function, called without       *)
(* await; handle appends the bare result.                                  *)
(***************************************************************************)
\* self._command_handlers[type(cmd)]: KeyError, logged and re-raised
AsyncCommandNotFound ==
  /\ pc = "command"
  /\ bus = "AsyncMessageBus"
  /\ message.type \notin DOMAIN command_handlers
  /\ RaiseToCaller(Exc("KeyError", message))
  /\ UNCHANGED <<registry, codec, seq_run, frames, repo, pool, outbox, dispatched, loop_state, emitted_messages, top, message, nextId,
                 hlog, enq, npop, call0>>

AsyncCommandObject ==
  /\ pc = "command"
  /\ bus = "AsyncMessageBus"
  /\ message.type \in DOMAIN command_handlers
  /\ Len(hlog) < MaxSteps
  /\ LET h == command_handlers[message.type] IN
       /\ h \in CommandHandlerObjs
       /\ \E beh \in Behaviours :
            /\ CanBehave(beh)
            /\ LET r == CommandHandlerABC_handle(h, message, beh, emitted_messages[h], nextId)
               IN  /\ emitted_messages' = [emitted_messages EXCEPT ![h] = r.buffer]
                   /\ nextId' = nextId + Len(beh.emit)
                   /\ CommandStepWith(h, r, r.buffer, TRUE, RawOutcome(message, r.result))
  /\ UNCHANGED <<registry, codec, seq_run, frames, repo, pool, outbox, dispatched, loop_state, top, message, npop, call0>>

\* an AsyncCommandHandlerABC instance is no CommandHandlerABC, so it is
\* called as a function: TypeError, logged and re-raised
AsyncCommandNotCallable ==
  /\ pc = "command"
  /\ bus = "AsyncMessageBus"
  /\ message.type \in DOMAIN command_handlers
  /\ command_handlers[message.type] \in AsyncCommandHandlerObjs
  /\ RaiseToCaller(Exc("TypeError", message))
  /\ UNCHANGED <<registry, codec, seq_run, frames, repo, pool, outbox, dispatched, loop_state, emitted_messages, top, message, nextId,
                 hlog, enq, npop, call0>>

\* a plain function: it runs and its value is the result
AsyncCommandCallable ==
  /\ pc = "command"
  /\ bus = "AsyncMessageBus"
  /\ message.type \in DOMAIN command_handlers
  /\ Len(hlog) < MaxSteps
  /\ LET h == command_handlers[message.type] IN
       /\ h \in CommandCallables
       /\ \E raises \in BOOLEAN :
            LET r == Callable_call(h, message, raises)
            IN  CommandStepWith(h, r, <<>>, TRUE, RawOutcome(message, r.result))
  /\ UNCHANGED <<registry, codec, seq_run, frames, repo, pool, outbox, dispatched, loop_state, emitted_messages, top, message, nextId,
                 npop, call0>>

\* a coroutine function: the call is not awaited, so the result is the
\* coroutine object and the function's body never runs
AsyncCommandCoroutine ==
  /\ pc = "command"
  /\ bus = "AsyncMessageBus"
  /\ message.type \in DOMAIN command_handlers
  /\ command_handlers[message.type] \in AsyncCommandCallables
  /\ results' =
       Append(results,
              RawOutcome(message, Coroutine(command_handlers[message.type], message)))
  /\ pc' = "loop"
  /\ UNCHANGED <<registry, codec, seq_run, frames, repo, pool, outbox, dispatched, async_locals, emitted_messages, top, queue, message,
                 hidx, event_results, batch_locals, ret, nextId, hlog, enq, npop,
                 call0>>

(***************************************************************************)
(* handle: the queue is empty, `return results`.                           *)
(***************************************************************************)
\* to the caller of handle
HandleReturn ==
  /\ pc = "loop"
  /\ queue = <<>>
  /\ top = "handle"
  /\ ret' = Returned(results)
  /\ results' = <<>>
  /\ pc' = "idle"
  /\ UNCHANGED <<registry, codec, seq_run, frames, repo, pool, outbox, dispatched, async_locals, emitted_messages, top, queue, message, hidx,
                 event_results, batch_locals, nextId, hlog, enq, npop, call0>>

(***************************************************************************)
(* MessageBusABC.batch_handle: for message in messages:                    *)
(* result = self.handle(message); results.extend(result).                  *)
(***************************************************************************)
BatchInputs ==
  {<<>>, <<"Other">>, <<"K", "X">>, <<"X", "K">>, <<"Y", "X">>, <<"X", "K", "Y">>}

BatchHandle(ts) ==
  /\ pc = "idle"
  /\ bus = "MessageBus"
  /\ nextId + Len(ts) - 1 <= MaxMsgs
  /\ top' = "batch_handle"
  /\ messages' = NewMsgs(ts, nextId)
  /\ nextId' = nextId + Len(ts)
  /\ bidx' = 1
  /\ batch_results' = <<>>
  /\ ret' = NoRet
  /\ call0' = npop
  /\ enq' = <<>>
  /\ pc' = "batch"
  /\ dispatched' = <<>>
  /\ UNCHANGED <<registry, codec, seq_run, frames, repo, pool, outbox, async_locals, emitted_messages, queue, results, message, hidx,
                 event_results, hlog, npop>>

\* the next iteration calls handle(message)
BatchCallHandle ==
  /\ pc = "batch"
  /\ bidx <= Len(messages)
  /\ queue' = <<messages[bidx]>>
  /\ enq' = <<messages[bidx]>>
  /\ results' = <<>>
  /\ call0' = npop
  /\ pc' = "loop"
  /\ dispatched' = Append(dispatched, messages[bidx])
  /\ UNCHANGED <<registry, codec, seq_run, frames, repo, pool, outbox, async_locals, emitted_messages, top, message, hidx, event_results,
                 batch_locals, ret, nextId, hlog, npop>>

\* handle returns to batch_handle, which extends its results
BatchHandleReturns ==
  /\ pc = "loop"
  /\ queue = <<>>
  /\ top = "batch_handle"
  /\ batch_results' = batch_results \o results
  /\ results' = <<>>
  /\ bidx' = bidx + 1
  /\ pc' = "batch"
  /\ UNCHANGED <<registry, codec, seq_run, frames, repo, pool, outbox, dispatched, async_locals, emitted_messages, top, queue, message, hidx,
                 event_results, messages, ret, nextId, hlog, enq, npop, call0>>

\* the for loop is over: `return results`
BatchReturn ==
  /\ pc = "batch"
  /\ bidx > Len(messages)
  /\ ret' = Returned(batch_results)
  /\ batch_results' = <<>>
  /\ pc' = "idle"
  /\ UNCHANGED <<registry, codec, seq_run, frames, repo, pool, outbox, dispatched, async_locals, emitted_messages, top, queue, results, message, hidx,
                 event_results, messages, bidx, nextId, hlog, enq, npop, call0>>

(***************************************************************************)
(* AsyncMessageBus.batch_handle: a queue of (idx, msg), max_concurrency     *)
(* worker tasks, q.join(), then cancel and gather of the workers.  A worker *)
(* is seen where its task can be suspended: at q.get() and inside           *)
(* self.handle(msg).                                                        *)
(***************************************************************************)
\* the lists of message types a caller passes to the concurrent batch_handle
AsyncBatchInputs == BatchInputs \cup {<<"X", "Y", "K">>}

\* the values of max_concurrency a caller passes
Concurrency == {0, 1, 2}

\* results = [None] * len(messages)
NoneSlot == [kind |-> "None", of |-> 0]

\* res of a cascade that returned: the list handle returns
ResultSlot(m) == [kind |-> "list", of |-> m.id]

\* the exception of a cascade that raised
ExceptionSlot(m) == [kind |-> "Exception", of |-> m.id]

\* one worker task per message
NumWorkersPerMessage(k, n) == n

\* workers = [asyncio.create_task(worker()) for _ in range(max_concurrency)]
NumWorkers(k, n) == k

\* the result is put in the first free slot
StoreResultInFinishOrder(slots, idx, r) ==
  [slots EXCEPT ![CHOOSE i \in 1..Len(slots) :
                    /\ slots[i] = NoneSlot
                    /\ \A j \in 1..(i - 1) : slots[j] # NoneSlot] = r]

\* results[idx] = res, results[idx] = e
StoreResult(slots, idx, r) == [slots EXCEPT ![idx] = r]

\* the cascade of m raises whatever its handlers do: m is neither an Event
\* nor a Command, or a Command without a handler or with one that cannot be
\* called
CascadeMustRaise(m) ==
  \/ ~IsEvent(m) /\ ~IsCommand(m)
  \/ IsCommand(m) /\ m.type \notin DOMAIN command_handlers
  \/ IsCommand(m) /\ m.type \in DOMAIN command_handlers
                  /\ command_handlers[m.type] \in AsyncCommandHandlerObjs

\* the cascade of m can raise: a command's handler raises, or a handler
\* emits a message whose step raises
CascadeCanRaise(m) ==
  \/ CascadeMustRaise(m)
  \/ IsCommand(m)
  \/ IsEvent(m) /\ m.type \in DOMAIN event_handlers /\ event_handlers[m.type] # <<>>

\* w.cancel() for every worker
CancelAll(ws) == [w \in 1..Len(ws) |-> [ws[w] EXCEPT !.cancel = TRUE]]

\* the CancelledError raised out of batch_handle
CancelledError == [type |-> "CancelledError", by |-> "caller", of |-> 0]

\* batch_handle up to await q.join()
AsyncBatchHandle(ts, k) ==
  /\ pc = "idle"
  /\ bus = "AsyncMessageBus"
  /\ nextId + Len(ts) - 1 <= MaxMsgs
  /\ top' = "batch_handle"
  /\ pc' = "pool"
  /\ ret' = NoRet
  /\ messages' = NewMsgs(ts, nextId)
  /\ nextId' = nextId + Len(ts)
  /\ max_concurrency' = k
  /\ work_queue' = [i \in 1..Len(ts) |-> i]
  /\ unfinished_tasks' = Len(ts)
  /\ batch_slots' = [i \in 1..Len(ts) |-> NoneSlot]
  /\ workers' = [w \in 1..NumWorkers(k, Len(ts)) |-> [st |-> "get", idx |-> 0, cancel |-> FALSE]]
  /\ caller' = "join"
  /\ cancellation' = "no"
  /\ pulled' = <<>>
  /\ finished' = <<>>
  /\ UNCHANGED <<registry, codec, seq_run, frames, repo, outbox, dispatched, async_locals, emitted_messages, queue,
                 results, message, hidx, event_results, bidx, batch_results, hlog,
                 enq, npop, call0>>

\* q.get() gives the head of the queue and leaves it there
WorkerGetPeeking(w) ==
  /\ pc = "pool"
  /\ w \in 1..Len(workers)
  /\ workers[w].st = "get"
  /\ ~workers[w].cancel
  /\ work_queue # <<>>
  /\ workers' = [workers EXCEPT ![w] = [st |-> "handle", idx |-> Head(work_queue), cancel |-> FALSE]]
  /\ work_queue' = work_queue
  /\ pulled' = Append(pulled, Head(work_queue))
  /\ UNCHANGED <<registry, codec, seq_run, frames, repo, outbox, dispatched, async_locals, emitted_messages, pc, top,
                 queue, results, message, hidx, event_results, batch_locals, ret,
                 nextId, hlog, enq, npop, call0, max_concurrency, unfinished_tasks,
                 batch_slots, caller, cancellation, finished>>

\* idx, msg = await q.get() gives the head of the queue; the worker enters
\* self.handle(msg)
WorkerGet(w) ==
  /\ pc = "pool"
  /\ w \in 1..Len(workers)
  /\ workers[w].st = "get"
  /\ ~workers[w].cancel
  /\ work_queue # <<>>
  /\ workers' = [workers EXCEPT ![w] = [st |-> "handle", idx |-> Head(work_queue), cancel |-> FALSE]]
  /\ work_queue' = Tail(work_queue)
  /\ pulled' = Append(pulled, Head(work_queue))
  /\ UNCHANGED <<registry, codec, seq_run, frames, repo, outbox, dispatched, async_locals, emitted_messages, pc, top,
                 queue, results, message, hidx, event_results, batch_locals, ret,
                 nextId, hlog, enq, npop, call0, max_concurrency, unfinished_tasks,
                 batch_slots, caller, cancellation, finished>>

\* self.handle(msg) ends: its list or its exception is stored at idx, then
\* q.task_done(), and the worker is back at q.get()
WorkerHandleDone(w) ==
  /\ pc = "pool"
  /\ w \in 1..Len(workers)
  /\ workers[w].st = "handle"
  /\ ~workers[w].cancel
  /\ LET idx == workers[w].idx
         m == messages[idx]
     IN  \E raises \in BOOLEAN :
           /\ raises => CascadeCanRaise(m)
           /\ ~raises => ~CascadeMustRaise(m)
           /\ batch_slots' = StoreResult(batch_slots, idx,
                                         IF raises THEN ExceptionSlot(m) ELSE ResultSlot(m))
           /\ finished' = Append(finished, [idx |-> idx, raised |-> raises])
  /\ unfinished_tasks' = unfinished_tasks - 1
  /\ workers' = [workers EXCEPT ![w] = [st |-> "get", idx |-> 0, cancel |-> FALSE]]
  /\ UNCHANGED <<registry, codec, seq_run, frames, repo, outbox, dispatched, async_locals, emitted_messages, pc, top,
                 queue, results, message, hidx, event_results, batch_locals, ret,
                 nextId, hlog, enq, npop, call0, max_concurrency, work_queue, caller,
                 cancellation, pulled>>

\* q.join() returns when every entry is done; the finally clause cancels
\* the workers and awaits them
JoinDone ==
  /\ pc = "pool"
  /\ caller = "join"
  /\ cancellation = "no"
  /\ unfinished_tasks = 0
  /\ workers' = CancelAll(workers)
  /\ caller' = "gather"
  /\ UNCHANGED <<registry, codec, seq_run, frames, repo, outbox, dispatched, async_locals, emitted_messages, pc, top,
                 queue, results, message, hidx, event_results, batch_locals, ret,
                 nextId, hlog, enq, npop, call0, max_concurrency, work_queue,
                 unfinished_tasks, batch_slots, cancellation, pulled, finished>>

\* the task that awaits q.join() is cancelled by its owner
CallerCancelRequest ==
  /\ pc = "pool"
  /\ caller = "join"
  /\ cancellation = "no"
  /\ messages # <<>>
  /\ cancellation' = "requested"
  /\ UNCHANGED <<registry, codec, seq_run, frames, repo, outbox, dispatched, async_locals, emitted_messages, pc, top,
                 queue, results, message, hidx, event_results, batch_locals, ret,
                 nextId, hlog, enq, npop, call0, max_concurrency, work_queue,
                 unfinished_tasks, workers, batch_slots, caller, pulled, finished>>

\* CancelledError goes out of batch_handle at once: the workers are neither
\* cancelled nor awaited
CallerCancelNoFinally ==
  /\ pc = "pool"
  /\ caller = "join"
  /\ cancellation = "requested"
  /\ cancellation' = "delivered"
  /\ workers' = workers
  /\ caller' = "none"
  /\ ret' = Raised(CancelledError)
  /\ pc' = pc
  /\ UNCHANGED <<registry, codec, seq_run, frames, repo, outbox, dispatched, async_locals, emitted_messages, top,
                 queue, results, message, hidx, event_results, batch_locals,
                 nextId, hlog, enq, npop, call0, max_concurrency, work_queue,
                 unfinished_tasks, batch_slots, pulled, finished>>

\* CancelledError is raised at await q.join(); the finally clause cancels
\* the workers and awaits them
CallerCancelDelivered ==
  /\ pc = "pool"
  /\ caller = "join"
  /\ cancellation = "requested"
  /\ cancellation' = "delivered"
  /\ workers' = CancelAll(workers)
  /\ caller' = "gather"
  /\ ret' = ret
  /\ pc' = pc
  /\ UNCHANGED <<registry, codec, seq_run, frames, repo, outbox, dispatched, async_locals, emitted_messages, top,
                 queue, results, message, hidx, event_results, batch_locals,
                 nextId, hlog, enq, npop, call0, max_concurrency, work_queue,
                 unfinished_tasks, batch_slots, pulled, finished>>

\* a cancelled worker runs again: at q.get() CancelledError is caught and
\* the loop is left; inside self.handle it is not an Exception, so nothing is
\* stored, the finally clause calls q.task_done() and the task ends
WorkerCancelled(w) ==
  /\ pc = "pool"
  /\ w \in 1..Len(workers)
  /\ workers[w].cancel
  /\ workers[w].st # "exit"
  /\ unfinished_tasks' = (IF workers[w].st = "handle" THEN unfinished_tasks - 1
                          ELSE unfinished_tasks)
  /\ workers' = [workers EXCEPT ![w] = [st |-> "exit", idx |-> workers[w].idx, cancel |-> TRUE]]
  /\ UNCHANGED <<registry, codec, seq_run, frames, repo, outbox, dispatched, async_locals, emitted_messages, pc, top,
                 queue, results, message, hidx, event_results, batch_locals, ret,
                 nextId, hlog, enq, npop, call0, max_concurrency, work_queue,
                 batch_slots, caller, cancellation, pulled, finished>>

\* gather(*workers, return_exceptions=True) is over: batch_handle returns
\* the slots that hold no exception, or the CancelledError goes on
GatherWorkersDone ==
  /\ pc = "pool"
  /\ caller = "gather"
  /\ \A w \in 1..Len(workers) : workers[w].st = "exit"
  /\ ret' = (IF cancellation = "delivered" THEN Raised(CancelledError)
             ELSE Returned(SelectSeq(batch_slots, LAMBDA r : r.kind # "Exception")))
  /\ caller' = "none"
  /\ pc' = "idle"
  /\ UNCHANGED <<registry, codec, seq_run, frames, repo, outbox, dispatched, async_locals, emitted_messages, top,
                 queue, results, message, hidx, event_results, batch_locals,
                 nextId, hlog, enq, npop, call0, max_concurrency, work_queue,
                 unfinished_tasks, workers, batch_slots, cancellation, pulled, finished>>

(***************************************************************************)
(* MessageBusABC.process_outbox.  The repository is the caller's: what     *)
(* list_unprocessed returns and whether save raises are drawn with \E.     *)
(***************************************************************************)
OutboxRecord(i) == [type |-> "OUTBOX", id |-> i]

OutboxLists == {<<>>, <<OutboxRecord(1)>>, <<OutboxRecord(1), OutboxRecord(2)>>}

\* outbox_repo.save() is called in a finally clause, after a failure too
ProcessOutboxStepSavingAlways ==
  /\ pc = "outbox"
  /\ bus = "MessageBus"
  /\ ridx <= Len(outbox_messages)
  /\ Len(hlog) < MaxSteps
  /\ \E raises \in BOOLEAN, save_raises \in BOOLEAN :
       LET h == outbox_handlers[oidx]
           r == OutboxHandlerABC_handle(h, outbox_messages[ridx], raises)
           ok == r.exc = NoExc
           last == oidx = Len(outbox_handlers)
           broke == ~ok \/ save_raises
       IN  /\ ~ok => ~save_raises
           /\ hlog' = Append(hlog, LogEntryAt(h, outbox_messages[ridx], r, <<>>, 0))
           /\ saves' = saves + 1
           /\ save_errors' = (IF save_raises THEN save_errors + 1 ELSE save_errors)
           /\ oidx' = (IF broke \/ last THEN 1 ELSE oidx + 1)
           /\ ridx' = (IF broke \/ last THEN ridx + 1 ELSE ridx)
  /\ UNCHANGED <<registry, codec, seq_run, frames, store, adds, uuids, id_arg, pool, dispatched, outbox_messages, async_locals, emitted_messages, pc,
                 top, queue, results, message, hidx, event_results, batch_locals,
                 ret, nextId, enq, npop, call0>>

\* the for loop goes on with the next handler after a failure
ProcessOutboxStepContinuing ==
  /\ pc = "outbox"
  /\ bus = "MessageBus"
  /\ ridx <= Len(outbox_messages)
  /\ Len(hlog) < MaxSteps
  /\ \E raises \in BOOLEAN, save_raises \in BOOLEAN :
       LET h == outbox_handlers[oidx]
           r == OutboxHandlerABC_handle(h, outbox_messages[ridx], raises)
           ok == r.exc = NoExc
           last == oidx = Len(outbox_handlers)
       IN  /\ ~ok => ~save_raises
           /\ hlog' = Append(hlog, LogEntryAt(h, outbox_messages[ridx], r, <<>>, 0))
           /\ saves' = (IF ok THEN saves + 1 ELSE saves)
           /\ save_errors' = (IF save_raises THEN save_errors + 1 ELSE save_errors)
           /\ oidx' = (IF last THEN 1 ELSE oidx + 1)
           /\ ridx' = (IF last THEN ridx + 1 ELSE ridx)
  /\ UNCHANGED <<registry, codec, seq_run, frames, store, adds, uuids, id_arg, pool, dispatched, outbox_messages, async_locals, emitted_messages, pc,
                 top, queue, results, message, hidx, event_results, batch_locals,
                 ret, nextId, enq, npop, call0>>

\* the record is marked processed when its handler fails
ProcessOutboxStepMarkingFailed ==
  /\ pc = "outbox"
  /\ bus = "MessageBus"
  /\ ridx <= Len(outbox_messages)
  /\ Len(hlog) < MaxSteps
  /\ \E raises \in BOOLEAN, save_raises \in BOOLEAN :
       LET h == outbox_handlers[oidx]
           r == OutboxHandlerABC_handle(h, outbox_messages[ridx], raises)
           ok == r.exc = NoExc
           broke == ~ok \/ save_raises
           last == oidx = Len(outbox_handlers)
       IN  /\ ~ok => ~save_raises
           /\ hlog' = Append(hlog, LogEntryAt(h, outbox_messages[ridx], r, <<>>, 0))
           /\ saves' = (IF ok THEN saves + 1 ELSE saves)
           /\ save_errors' = (IF save_raises THEN save_errors + 1 ELSE save_errors)
           /\ oidx' = (IF broke \/ last THEN 1 ELSE oidx + 1)
           /\ ridx' = (IF broke \/ last THEN ridx + 1 ELSE ridx)
           /\ store' = (IF ok THEN store
                        ELSE [i \in 1..Len(store) |->
                                IF store[i].rec = outbox_messages[ridx]
                                THEN [store[i] EXCEPT !.processed = TRUE]
                                ELSE store[i]])
  /\ UNCHANGED <<registry, codec, seq_run, frames, adds, uuids, id_arg, pool, dispatched, outbox_messages, async_locals,
                 emitted_messages, pc, top, queue, results, message, hidx,
                 event_results, batch_locals, ret, nextId, enq, npop, call0>>

\* no outbox handler is registered: return at once
ProcessOutboxNoHandlers ==
  /\ pc = "idle"
  /\ bus = "MessageBus"
  /\ Len(outbox_handlers) = 0
  /\ ret # Returned(<<>>) \/ top # "process_outbox"
  /\ top' = "process_outbox"
  /\ ret' = Returned(<<>>)
  /\ UNCHANGED <<registry, codec, seq_run, frames, repo, pool, outbox, dispatched, async_locals, emitted_messages, pc, queue,
                 results, message, hidx, event_results, batch_locals, nextId,
                 hlog, enq, npop, call0>>

\* outbox_messages = outbox_repo.list_unprocessed()
ProcessOutbox(recs) ==
  /\ pc = "idle"
  /\ bus = "MessageBus"
  /\ Len(outbox_handlers) > 0
  /\ Len(hlog) < MaxSteps
  /\ top' = "process_outbox"
  /\ ret' = NoRet
  /\ outbox_messages' = recs
  /\ ridx' = 1
  /\ oidx' = 1
  /\ pc' = "outbox"
  /\ UNCHANGED <<registry, codec, seq_run, frames, repo, pool, dispatched, saves, async_locals, emitted_messages, queue, results,
                 message, hidx, event_results, batch_locals, nextId, hlog, enq,
                 npop, call0>>

\* one iteration of the inner loop: handler.handle(outbox_message, context),
\* then outbox_repo.save(); an exception of either is logged and breaks the
\* inner loop, so the outer loop goes to the next record
ProcessOutboxStepWriting(keys) ==
  /\ pc = "outbox"
  /\ bus = "MessageBus"
  /\ ridx <= Len(outbox_messages)
  /\ Len(hlog) < MaxSteps
  /\ \E raises \in BOOLEAN, save_raises \in BOOLEAN :
       LET h == outbox_handlers[oidx]
           r == OutboxHandlerABC_handle(h, outbox_messages[ridx], raises)
           ok == r.exc = NoExc
           broke == ~ok \/ save_raises
           last == oidx = Len(outbox_handlers)
       IN  /\ ~ok => ~save_raises
           /\ hlog' = Append(hlog, LogEntryAt(h, outbox_messages[ridx], r, <<>>, 0))
           /\ saves' = (IF ok THEN saves + 1 ELSE saves)
           /\ save_errors' = (IF save_raises THEN save_errors + 1 ELSE save_errors)
           /\ oidx' = (IF broke \/ last THEN 1 ELSE oidx + 1)
           /\ ridx' = (IF broke \/ last THEN ridx + 1 ELSE ridx)
           /\ PassContext(h, keys)
  /\ UNCHANGED <<registry, codec, seq_run, frames, store, adds, uuids, id_arg, pool, dispatched, outbox_messages,
                 coroutines, gathered, tasks, closed, emitted_messages, pc,
                 top, queue, results, message, hidx, event_results, batch_locals,
                 ret, nextId, enq, npop, call0>>

\* an outbox handler that leaves the context as it is
ProcessOutboxStep == ProcessOutboxStepWriting({})

\* the outer loop is over: process_outbox returns None
ProcessOutboxReturn ==
  /\ pc = "outbox"
  /\ bus = "MessageBus"
  /\ ridx > Len(outbox_messages)
  /\ ret' = Returned(<<>>)
  /\ outbox_messages' = <<>>
  /\ ridx' = 1
  /\ pc' = "idle"
  /\ UNCHANGED <<registry, codec, seq_run, frames, repo, pool, dispatched, oidx, saves, async_locals, emitted_messages, top,
                 queue, results, message, hidx, event_results, batch_locals,
                 nextId, hlog, enq, npop, call0>>

\* AsyncMessageBus.process_outbox with no outbox handler: return at once
AsyncProcessOutboxNoHandlers ==
  /\ pc = "idle"
  /\ bus = "AsyncMessageBus"
  /\ Len(outbox_handlers) = 0
  /\ ret # Returned(<<>>) \/ top # "process_outbox"
  /\ top' = "process_outbox"
  /\ ret' = Returned(<<>>)
  /\ UNCHANGED <<registry, codec, seq_run, frames, repo, pool, outbox, dispatched, async_locals, emitted_messages, pc, queue,
                 results, message, hidx, event_results, batch_locals, nextId,
                 hlog, enq, npop, call0>>

\* outbox_messages = await outbox_repo.list_unprocessed()
AsyncProcessOutbox(recs) ==
  /\ pc = "idle"
  /\ bus = "AsyncMessageBus"
  /\ Len(outbox_handlers) > 0
  /\ Len(hlog) < MaxSteps
  /\ top' = "process_outbox"
  /\ ret' = NoRet
  /\ outbox_messages' = recs
  /\ ridx' = 1
  /\ oidx' = 1
  /\ pc' = "outbox"
  /\ UNCHANGED <<registry, codec, seq_run, frames, repo, pool, dispatched, saves, async_locals, emitted_messages, queue, results,
                 message, hidx, event_results, batch_locals, nextId, hlog, enq,
                 npop, call0>>

\* one iteration of the inner loop: await handler.handle(outbox_message,
\* context), then await outbox_repo.save(); an exception of either is logged
\* and breaks the inner loop
AsyncProcessOutboxStep ==
  /\ pc = "outbox"
  /\ bus = "AsyncMessageBus"
  /\ ridx <= Len(outbox_messages)
  /\ Len(hlog) < MaxSteps
  /\ \E raises \in BOOLEAN, save_raises \in BOOLEAN :
       LET h == outbox_handlers[oidx]
           r == AsyncOutboxHandlerABC_handle(h, outbox_messages[ridx], raises)
           ok == r.exc = NoExc
           broke == ~ok \/ save_raises
           last == oidx = Len(outbox_handlers)
       IN  /\ ~ok => ~save_raises
           /\ hlog' = Append(hlog, LogEntryAt(h, outbox_messages[ridx], r, <<>>, 0))
           /\ saves' = (IF ok THEN saves + 1 ELSE saves)
           /\ save_errors' = (IF save_raises THEN save_errors + 1 ELSE save_errors)
           /\ oidx' = (IF broke \/ last THEN 1 ELSE oidx + 1)
           /\ ridx' = (IF broke \/ last THEN ridx + 1 ELSE ridx)
  /\ UNCHANGED <<registry, codec, seq_run, frames, store, adds, uuids, id_arg, pool, dispatched, outbox_messages, async_locals, emitted_messages, pc,
                 top, queue, results, message, hidx, event_results, batch_locals,
                 ret, nextId, enq, npop, call0>>

\* the outer loop is over: process_outbox returns None
AsyncProcessOutboxReturn ==
  /\ pc = "outbox"
  /\ bus = "AsyncMessageBus"
  /\ ridx > Len(outbox_messages)
  /\ ret' = Returned(<<>>)
  /\ outbox_messages' = <<>>
  /\ ridx' = 1
  /\ pc' = "idle"
  /\ UNCHANGED <<registry, codec, seq_run, frames, repo, pool, dispatched, oidx, saves, async_locals, emitted_messages, top,
                 queue, results, message, hidx, event_results, batch_locals,
                 nextId, hlog, enq, npop, call0>>

(***************************************************************************)
(* register_outbox_message and the outbox repository.                      *)
(***************************************************************************)
\* the id arguments a caller passes: none, or a UUID of its own
SuppliedId == 101

IdArgs == {NoId, SuppliedId}

\* uuid.uuid4(): the n-th generated id, distinct from every supplied one
Uuid4(n) == 200 + n

\* message.serialize(): the payload stands for the message it was made of
Serialize(m) == [serialized |-> m]

\* type(message).__name__
TypeName(m) == m.type

\* model(id=..., type=..., message=..., payload=...)
OutboxMessage(m, type_, id) ==
  [id |-> id, type |-> type_, message |-> TypeName(m), payload |-> Serialize(m)]

\* the instances of types.Message
MessageInstances == {Msg(t, i) : t \in MsgTypes, i \in 1..MaxMsgs}

\* the four assert statements of OutBoxRepoABC.add
AddAsserts(outbox_message) ==
  /\ "id" \in DOMAIN outbox_message
  /\ "type" \in DOMAIN outbox_message
  /\ "message_type" \in DOMAIN outbox_message
  /\ "message" \in DOMAIN outbox_message
  /\ outbox_message.message \in MessageInstances

\* _add of a repository that keeps its rows in a list, each unprocessed
RepoAdd(st, outbox_message) == Append(st, [rec |-> outbox_message, processed |-> FALSE])

\* list_unprocessed of that repository: the rows nothing marked processed
ListUnprocessed(st) ==
  LET unprocessed == SelectSeq(st, LAMBDA row : ~row.processed)
  IN  [i \in 1..Len(unprocessed) |-> unprocessed[i].rec]

\* the discriminator chosen by the isinstance chain; Command is tested first
TypeOf(m) == IF IsCommand(m) THEN "COMMAND" ELSE IF IsEvent(m) THEN "EVENT" ELSE "Unknown"

\* register_outbox_message(outbox_repo, message, id): the whole call.  The
\* assert statements of add run unless the interpreter strips them (-O) or the
\* repository overrides add.
RegisterOutboxMessage(t, id) ==
  /\ pc = "idle"
  /\ nextId <= MaxRecords
  /\ LET m == Msg(t, nextId)
         generated == id = NoId
         outbox_message == OutboxMessage(m, TypeOf(m), IF generated THEN Uuid4(uuids + 1) ELSE id)
     IN  /\ message' = m
         /\ nextId' = nextId + 1
         /\ top' = "register_outbox_message"
         /\ id_arg' = id
         /\ IF TypeOf(m) = "Unknown"
            THEN /\ ret' = Raised(Exc("TypeError", m))
                 /\ UNCHANGED <<store, adds, uuids>>
            ELSE /\ uuids' = (IF generated THEN uuids + 1 ELSE uuids)
                 /\ adds' = adds + 1
                 /\ \E asserts \in BOOLEAN :
                      IF asserts /\ ~AddAsserts(outbox_message)
                      THEN /\ ret' = Raised(Exc("AssertionError", m))
                           /\ store' = store
                      ELSE /\ ret' = Returned(<<outbox_message>>)
                           /\ store' = RepoAdd(store, outbox_message)
  /\ UNCHANGED <<registry, codec, seq_run, frames, save_errors, pool, outbox, dispatched, async_locals, emitted_messages, pc, queue,
                 results, hidx, event_results, batch_locals, hlog, enq, npop, call0>>

(***************************************************************************)
(* Message.serialize and Event.serialize: serializer.serialize(self), with *)
(* the serializer the JSONSerializer on which the package registers its    *)
(* functions for UUID, date and datetime.  A value is a record of its type  *)
(* and a number that stands for its content; a message object is the       *)
(* function from its declared fields to their values.                      *)
(***************************************************************************)
\* the string "test" of the unit test
TestString == 1

Str(i) == [t |-> "str", v |-> i]

\* the fields a message class declares, and the values a field can hold
FieldNames == {"payload", "id", "at"}

FieldValues(f) ==
  IF f = "payload" THEN {Str(TestString), Str(2)}
  ELSE IF f = "id" THEN {[t |-> "UUID", v |-> 1], [t |-> "UUID", v |-> 2]}
  ELSE {[t |-> "date", v |-> 1], [t |-> "datetime", v |-> 1]}

\* the objects of the dataclasses that declare some of the fields
DataclassObjects ==
  UNION {{m \in [S -> UNION {FieldValues(f) : f \in S}] : \A f \in S : m[f] \in FieldValues(f)}
           : S \in SUBSET FieldNames}

\* every value is left as it is
SerializeValueUnchanged(x) == x

\* the functions registered on the serializer: str(uuid_) for a UUID,
\* isoformat() for a date and for a datetime; a str is JSON already
SerializeValue(x) ==
  IF x.t = "UUID" THEN Str(100 + x.v)
  ELSE IF x.t = "date" THEN Str(200 + x.v)
  ELSE IF x.t = "datetime" THEN Str(300 + x.v)
  ELSE x

\* JSONSerializer.serialize of a dataclass object: the dict of its declared
\* fields, each value serialized
JSONSerializer_serialize(obj) == [f \in DOMAIN obj |-> SerializeValue(obj[f])]

\* everything but the message object and the value serialize returned
bus_state ==
  <<registry, seq_run, frames, repo, pool, outbox, loop_state, coroutines, gathered, emitted_messages,
    pc, top, queue, results, message, hidx, event_results, batch_locals, ret,
    nextId, hlog, dispatched, enq, npop, call0>>

\* a message object is made of its field values
NewMessageObject(obj) ==
  /\ ser_in' = [made |-> TRUE, fields |-> obj]
  /\ ser_out' = NoOutput
  /\ UNCHANGED bus_state

\* message.serialize()
Message_serialize ==
  /\ ser_in.made
  /\ ~ser_out.done
  /\ ser_out' = [done |-> TRUE, value |-> JSONSerializer_serialize(ser_in.fields)]
  /\ UNCHANGED <<ser_in, bus_state>>

(***************************************************************************)
(* The specification.                                                      *)
(***************************************************************************)
\* the steps of the sequential engine inside one handle call
Engine ==
  \/ PopEvent
  \/ PopUnregisteredEvent
  \/ PopCommand
  \/ PopOther
  \/ HandleEventObject
  \/ HandleEventCallable
  \/ HandleEventReturn
  \/ HandleCommandNotFound
  \/ HandleCommandObject
  \/ HandleCommandCallable

\* the steps of the asynchronous engine inside one handle call, and of the
\* event loop
AsyncEngine ==
  \/ AsyncLaunchObject
  \/ AsyncLaunchNotCallable
  \/ AsyncLaunchCallable
  \/ AsyncGatherTypeError
  \/ AsyncGatherEmpty
  \/ AsyncGatherAwait
  \/ \E i \in DOMAIN tasks : TaskRun(i)
  \/ AsyncGatherDone
  \/ AsyncGatherFailed
  \/ AsyncCommandNotFound
  \/ AsyncCommandObject
  \/ AsyncCommandNotCallable
  \/ AsyncCommandCallable
  \/ AsyncCommandCoroutine

\* a caller that dispatches single messages with handle
Next ==
  \/ \E t \in MsgTypes : Handle(t)
  \/ Engine
  \/ AsyncEngine
  \/ HandleReturn
  \/ ProcessOutboxNoHandlers
  \/ \E recs \in OutboxLists : ProcessOutbox(recs)
  \/ ProcessOutboxStep
  \/ ProcessOutboxReturn

Spec == Init /\ [][Next]_vars

\* a caller that dispatches lists of messages with batch_handle
NextBatch ==
  \/ \E ts \in BatchInputs : BatchHandle(ts)
  \/ BatchCallHandle
  \/ Engine
  \/ BatchHandleReturns
  \/ BatchReturn

SpecBatch == Init /\ [][NextBatch]_vars

\* a caller that registers messages in the outbox and sweeps it
NextOutbox ==
  \/ \E t \in MsgTypes, id \in IdArgs : RegisterOutboxMessage(t, id)
  \/ ProcessOutboxNoHandlers
  \/ ProcessOutbox(ListUnprocessed(store))
  \/ ProcessOutboxStep
  \/ ProcessOutboxReturn
  \/ AsyncProcessOutboxNoHandlers
  \/ AsyncProcessOutbox(ListUnprocessed(store))
  \/ AsyncProcessOutboxStep
  \/ AsyncProcessOutboxReturn

SpecOutbox == Init /\ [][NextOutbox]_vars

\* the worker tasks batch_handle can create
WorkerIds == 1..MaxMsgs

\* a caller that dispatches lists of messages with the concurrent
\* batch_handle and may cancel the call while it waits
NextAsyncBatch ==
  \/ \E ts \in AsyncBatchInputs, k \in Concurrency : AsyncBatchHandle(ts, k)
  \/ \E w \in WorkerIds : WorkerGet(w)
  \/ \E w \in WorkerIds : WorkerHandleDone(w)
  \/ JoinDone
  \/ CallerCancelRequest
  \/ CallerCancelDelivered
  \/ \E w \in WorkerIds : WorkerCancelled(w)
  \/ GatherWorkersDone

SpecAsyncBatch == Init /\ [][NextAsyncBatch]_vars

\* the writes that add a key the context does not hold yet
NewKeys == {keys \in ContextWrites : keys \cap context = {}}

\* the sequential bus with handlers that write into the context they are
\* passed: batches, each entry a handle call, and outbox sweeps
NextContext ==
  \/ \E ts \in BatchInputs : BatchHandle(ts)
  \/ BatchCallHandle
  \/ BatchHandleReturns
  \/ BatchReturn
  \/ PopEvent
  \/ PopUnregisteredEvent
  \/ PopCommand
  \/ PopOther
  \/ \E keys \in NewKeys : HandleEventObjectWriting(keys)
  \/ \E keys \in NewKeys : HandleEventCallableWriting(keys)
  \/ HandleEventReturn
  \/ HandleCommandNotFound
  \/ \E keys \in NewKeys : HandleCommandObjectWith(TRUE, keys)
  \/ \E keys \in NewKeys : HandleCommandCallableWriting(keys)
  \/ \E recs \in OutboxLists : ProcessOutbox(recs)
  \/ \E keys \in NewKeys : ProcessOutboxStepWriting(keys)
  \/ ProcessOutboxReturn

SpecContext == Init /\ [][NextContext]_vars

\* a caller that makes message objects and serializes them
NextSerialize ==
  \/ \E obj \in DataclassObjects : NewMessageObject(obj)
  \/ Message_serialize

SpecSerialize == Init /\ [][NextSerialize]_vars

(***************************************************************************)
(* Properties.                                                             *)
(***************************************************************************)
\* a handle call is running
InHandle == pc \in {"loop", "event", "command", "await"}

\* number of messages the running handle call has popped
Popped == npop - call0

\* the history entries of the queue step of pop number p
EntriesAt(p) == SelectSeq(hlog, LAMBDA e : e.pop = p)

HandlersOf(es) == [i \in 1..Len(es) |-> es[i].h]

Range(seq) == {seq[i] : i \in 1..Len(seq)}

\* C1: in one handle call, of either engine, the messages are popped in the
\* order in which they were appended to the queue (the k-th message popped is
\* the k-th appended, and what waits is what was appended after it, in that
\* order), and the outcomes stand in results in the order in which their
\* messages were popped.
C1_FifoCascade ==
  InHandle =>
    /\ Popped <= Len(enq)
    /\ queue = SubSeq(enq, Popped + 1, Len(enq))
    /\ (Popped > 0 /\ pc # "loop") => message = enq[Popped]
    /\ \E f \in [1..Len(results) -> 1..Popped] :
         /\ \A i \in 1..Len(results) : results[i].msg = enq[f[i]]
         /\ \A i, j \in 1..Len(results) : i <= j => f[i] <= f[j]

\* C1, reached: X was dispatched, a handler of X emitted Y, a handler of Y
\* emitted K, and handle returned the outcomes of X, of Y and of K in this
\* order.
C1_Witness ==
  /\ pc = "idle"
  /\ top = "handle"
  /\ ret.kind = "returned"
  /\ Len(ret.value) = 3
  /\ Len(hlog) = 3
  /\ hlog[2].m \in Range(hlog[1].emitted)
  /\ hlog[3].m \in Range(hlog[2].emitted)
  /\ [i \in 1..3 |-> ret.value[i].msg] = <<hlog[1].m, hlog[2].m, hlog[3].m>>
  /\ [i \in 1..3 |-> ret.value[i].msg.type] = <<"X", "Y", "K">>

\* C2: in the sequential engine, when the queue step of an event is over,
\* each handler registered for the event's type has been invoked exactly once
\* for it, in registration order, whichever of them raised; and no exception
\* of an event handler ends the handle call.
C2_AllHandlersInvokedOnce ==
  bus = "MessageBus" =>
    /\ (pc = "loop" /\ Popped > 0 /\ IsEvent(message)
          /\ message.type \in DOMAIN event_handlers)
         => /\ HandlersOf(EntriesAt(npop)) = event_handlers[message.type]
            /\ \A i \in 1..Len(EntriesAt(npop)) : EntriesAt(npop)[i].m = message
    /\ (ret.kind = "raised" /\ ret.exc.type = "HandlerError")
         => ret.exc.by \in CommandHandlerObjs \cup CommandCallables

\* C2, reached: an event with three handlers was processed, the first handler
\* raised and both later siblings ran.
C2_Witness ==
  /\ bus = "MessageBus"
  /\ pc = "loop"
  /\ Popped > 0
  /\ IsEvent(message)
  /\ Len(EntriesAt(npop)) = 3
  /\ EntriesAt(npop)[1].exc # NoExc
  /\ EntriesAt(npop)[3].exc = NoExc

\* the outcomes the sequential _handle_event returns for the invocations es
OutcomesOf(es) ==
  LET ok == SelectSeq(es, LAMBDA e : e.exc = NoExc)
  IN  [i \in 1..Len(ok) |-> EventOutcome(ok[i].m, ok[i].result)]

\* handle of the sequential bus returned, its input was an event of a
\* registered type and no other message was popped in the call
C3_Dispatched ==
  /\ bus = "MessageBus"
  /\ pc = "idle"
  /\ top = "handle"
  /\ ret.kind = "returned"
  /\ Popped = 1
  /\ IsEvent(enq[1])
  /\ enq[1].type \in DOMAIN event_handlers

\* C3, as stated: dispatching one event of a type with N handlers returns N
\* outcome entries, even if some of the handlers raise.
C3_Original ==
  C3_Dispatched => Len(ret.value) = Len(event_handlers[enq[1].type])

\* C3, amended: all N handlers are invoked, and handle returns one outcome
\* entry for each handler that returned, in registration order: N minus the
\* number of handlers that raised.
C3_OutcomePerReturningHandler ==
  C3_Dispatched =>
    /\ HandlersOf(EntriesAt(npop)) = event_handlers[enq[1].type]
    /\ ret.value = OutcomesOf(EntriesAt(npop))
    /\ Len(ret.value) =
         Len(event_handlers[enq[1].type])
           - Cardinality({i \in 1..Len(EntriesAt(npop)) : EntriesAt(npop)[i].exc # NoExc})

\* C3, reached: an event with three handlers, one of which raised, gave two
\* outcome entries.
C3_Witness ==
  /\ C3_Dispatched
  /\ Len(event_handlers[enq[1].type]) = 3
  /\ Len(ret.value) = 2
  /\ \E i \in 1..3 : EntriesAt(npop)[i].exc # NoExc

\* the errors an unregistered command ends the handle call with
UnregisteredCommandErrors(m) ==
  {Exc("AssertionError", m), Exc("TypeError", m), Exc("KeyError", m)}

\* C4: whenever a command of a type without handler has been popped, in
\* either engine, the next step of the call raises an error to the caller of
\* handle: no handler runs, and no outcome list is returned, whatever
\* outcomes the call had accumulated.
C4_UnregisteredCommandRaises ==
  [][(pc = "command" /\ message.type \notin DOMAIN command_handlers)
       => /\ pc' = "idle"
          /\ ret'.kind = "raised"
          /\ ret'.exc \in UnregisteredCommandErrors(message)
          /\ ret'.value = <<>>
          /\ results' = <<>>
          /\ hlog' = hlog]_vars

\* C4, reached: the unregistered command was emitted in the cascade, the
\* call had an outcome already, and it ended with the error.
C4_Witness ==
  /\ pc = "idle"
  /\ top = "handle"
  /\ ret.kind = "raised"
  /\ ret.exc \in UnregisteredCommandErrors(message)
  /\ IsCommand(message)
  /\ Popped = 2
  /\ message \in Range(hlog[Len(hlog)].emitted)
  /\ hlog[Len(hlog)].exc = NoExc
  /\ hlog[Len(hlog)].pop = call0 + 1

\* the step ran a command handler and the handler raised
CommandHandlerRaised ==
  /\ pc = "command"
  /\ Len(hlog') = Len(hlog) + 1
  /\ hlog'[Len(hlog')].exc # NoExc

\* C5: when a command handler raises, handle ends with that very exception
\* raised to its caller: no outcome list is returned and the messages still
\* waiting in the queue are dropped with it, so none of them is dispatched.
C5_CommandErrorPropagates ==
  [][CommandHandlerRaised
       => /\ pc' = "idle"
          /\ ret' = Raised(hlog'[Len(hlog')].exc)
          /\ ret'.exc = HandlerError(command_handlers[message.type], message)
          /\ ret'.value = <<>>
          /\ queue' = <<>>
          /\ results' = <<>>
          /\ npop' = npop]_vars

\* C5, reached: a command handler raised while a message emitted earlier was
\* still waiting, and the call ended with the handler's exception.
C5_Witness ==
  /\ pc = "idle"
  /\ top = "handle"
  /\ ret.kind = "raised"
  /\ ret.exc.type = "HandlerError"
  /\ hlog[Len(hlog)].exc = ret.exc
  /\ IsCommand(message)
  /\ Len(enq) > Popped

\* an event is at the head of the queue and its type is no key of the registry
UnregisteredEventNext ==
  /\ pc = "loop"
  /\ queue # <<>>
  /\ IsEvent(Head(queue))
  /\ Head(queue).type \notin DOMAIN event_handlers

\* the for loop over an empty handler list has nothing to run
EmptyHandlerList ==
  /\ pc = "event"
  /\ Len(event_handlers[message.type]) = 0

\* C6: popping an event without registered handlers, in either engine, adds
\* no outcome, raises nothing and invokes no handler, and the call goes on
\* with the rest of the queue.
C6_UnregisteredEventIsNoOp ==
  [][/\ UnregisteredEventNext
          => /\ pc' = "loop"
             /\ message' = Head(queue)
             /\ queue' = Tail(queue)
             /\ results' = results
             /\ ret' = ret
             /\ hlog' = hlog
             /\ tasks' = tasks
     /\ EmptyHandlerList
          => /\ pc' = "loop"
             /\ queue' = queue
             /\ results' = results
             /\ ret' = ret
             /\ hlog' = hlog
             /\ tasks' = tasks]_vars

\* C6, reached: a handler emitted an event of an unregistered type and then a
\* command; the event was popped and skipped, the command was popped after
\* it, and handle returned the outcomes of the input and of the command.
C6_Witness ==
  /\ pc = "idle"
  /\ top = "handle"
  /\ ret.kind = "returned"
  /\ Popped = 3
  /\ IsEvent(enq[2])
  /\ enq[2].type \notin DOMAIN event_handlers
  /\ [i \in 1..Len(ret.value) |-> ret.value[i].msg] = <<enq[1], enq[3]>>

\* the invocations of instances that own an emission buffer and returned
DrainingEntries ==
  {i \in 1..Len(hlog) : hlog[i].h \in BufferOwners /\ hlog[i].exc = NoExc}

\* C7, as stated: what the queue step of an invocation appends to the queue
\* is what that invocation emitted, so no message is appended to the queue of
\* a call twice and no invocation appends a message of an earlier one.
C7_EmissionsDrainedOnce ==
  /\ \A i \in DrainingEntries : hlog[i].drained = hlog[i].emitted
  /\ \A i, j \in 1..Len(enq) : i # j => enq[i] # enq[j]

\* C7, the failing case reached: handle returned, and an invocation of a
\* later handle call had appended to the queue a message that an invocation
\* of an earlier call had emitted and appended.
C7_StaleEmissionRequeued ==
  /\ pc = "idle"
  /\ ret.kind = "returned"
  /\ \E i, j \in DrainingEntries :
       /\ i < j
       /\ hlog[i].h = hlog[j].h
       /\ hlog[i].pop <= call0
       /\ hlog[j].pop > call0
       /\ hlog[i].emitted # <<>>
       /\ Range(hlog[i].emitted) \subseteq Range(hlog[i].drained)
       /\ Range(hlog[i].emitted) \subseteq Range(hlog[j].drained)

\* C8, as stated: the handle of an event handler object returns what its
\* _handle returned, and the outcome entries of the call carry the values
\* the handlers' _handle returned.
C8_HandleReturnsHandleValue ==
  /\ \A i \in 1..Len(hlog) :
       (hlog[i].h \in EventHandlerObjs /\ hlog[i].exc = NoExc)
         => hlog[i].result = hlog[i].returned
  /\ C3_Dispatched =>
       \A i \in 1..Len(ret.value) :
         ret.value[i].result = SelectSeq(EntriesAt(npop), LAMBDA e : e.exc = NoExc)[i].returned

\* C8, the failing case reached: _handle of an event handler object returned
\* a value and the outcome entry handle returned for it holds None.
C8_ValueDropped ==
  /\ C3_Dispatched
  /\ Len(ret.value) = 1
  /\ Len(EntriesAt(npop)) = 1
  /\ EntriesAt(npop)[1].h \in EventHandlerObjs
  /\ EntriesAt(npop)[1].returned = Val(EntriesAt(npop)[1].h, enq[1])
  /\ ret.value[1].result = None

\* the invocations that went through the hook wrapper of a base class
WrappedEntries ==
  {i \in 1..Len(hlog) : hlog[i].h \in EventHandlerObjs \cup OutboxHandlerObjs}

IsPrefix(a, b) == Len(a) <= Len(b) /\ a = SubSeq(b, 1, Len(a))

\* the step raises out of the cascade of the batch entry being dispatched
BatchEntryRaises ==
  /\ top = "batch_handle"
  /\ \/ pc = "command" /\ message.type \notin DOMAIN command_handlers
     \/ CommandHandlerRaised
     \/ pc = "loop" /\ queue # <<>> /\ ~IsEvent(Head(queue)) /\ ~IsCommand(Head(queue))

\* C10: batch_handle of the sequential bus calls handle for the input
\* messages one after another in input order; when the cascade of one of
\* them raises, batch_handle ends with that error raised and no results, not
\* even those of the earlier messages, no later message is dispatched (until
\* the caller makes its next call), and what the handlers that ran before did
\* (their history, their buffers) stays.
C10_BatchAbortsOnError ==
  /\ [](top = "batch_handle" =>
          /\ IsPrefix(dispatched, messages)
          /\ pc \in {"loop", "event", "command"} => Len(dispatched) = bidx
          /\ pc = "batch" => Len(dispatched) = bidx - 1
          /\ (pc = "idle" /\ ret.kind = "raised") =>
               (ret.value = <<>> /\ batch_results = <<>> /\ queue = <<>>))
  /\ [][/\ BatchEntryRaises
             => /\ pc' = "idle"
                /\ ret'.kind = "raised"
                /\ ret'.value = <<>>
                /\ dispatched' = dispatched
                /\ IsPrefix(hlog, hlog')
                /\ \A h \in BufferOwners : IsPrefix(emitted_messages[h], emitted_messages'[h])
        /\ (top = "batch_handle" /\ pc = "idle" /\ ret.kind = "raised")
             => (dispatched' = dispatched \/ ret' = NoRet)]_vars

\* C10, reached: a batch of three messages, the handlers of the first ran,
\* the cascade of the second raised, batch_handle raised and the third was
\* never dispatched.
C10_Witness ==
  /\ top = "batch_handle"
  /\ pc = "idle"
  /\ ret.kind = "raised"
  /\ Len(messages) = 3
  /\ Len(dispatched) = 2
  /\ \E i \in 1..Len(hlog) : hlog[i].m = messages[1] /\ hlog[i].exc = NoExc
  /\ message = messages[2]

\* the tasks created for the handlers of the queue step of pop number p
TasksAt(p) == {i \in DOMAIN tasks : tasks[i].pop = p}

\* C14, as stated: in the asynchronous engine the cascade moves on, and handle
\* returns, only when no handler invocation launched for the current event is
\* still running, also when a sibling has failed.
C14_FanOutJoined ==
  (bus = "AsyncMessageBus" /\ pc # "await")
    => \A i \in DOMAIN tasks : tasks[i].st # "pending"

\* C14, the failing case reached: one handler of the event failed, handle
\* has returned to its caller and a sibling launched for the same event is
\* still running.
C14_SiblingOutlivesHandle ==
  /\ bus = "AsyncMessageBus"
  /\ pc = "idle"
  /\ ret.kind = "returned"
  /\ \E i, j \in TasksAt(npop) :
       /\ tasks[i].st = "failed"
       /\ tasks[j].st = "pending"

\* the outcomes results holds for the message m
OutcomesFor(rs, m) == SelectSeq(rs, LAMBDA r : r.msg = m)

C16_SessionClosedEachStep ==
  [][(/\ bus = "AsyncMessageBus"
      /\ "db_session" \in context
      /\ pc \in {"event", "await"}
      /\ pc' = "loop")
       => closed' = closed + 1]_vars

\* C16, the failing case reached: the context holds db_session, a handler of
\* the event failed, the step is over and handle has returned, and close was
\* never called.
C16_SessionLeftOpen ==
  /\ bus = "AsyncMessageBus"
  /\ "db_session" \in context
  /\ pc = "idle"
  /\ ret.kind = "returned"
  /\ Popped = 1
  /\ \E i \in TasksAt(npop) : tasks[i].st = "failed"
  /\ closed = 0

(***************************************************************************)
(* The outbox: C17 to C20.                                                 *)
(***************************************************************************)
\* the last handler invocation logged
LastEntry(log) == log[Len(log)]

\* a step of the sweep's inner loop is taken
SweepStep == pc = "outbox" /\ ridx <= Len(outbox_messages) /\ hlog' # hlog

\* C17: a sweep starts at the first record and the first handler; every step
\* invokes the handler at the current position for the current record; when
\* it fails, the next step is the first handler of the next record, nothing
\* is raised and the sweep goes on; when it succeeds, the next handler of the
\* same record follows, or the first handler of the next record after the
\* last handler (or after a save that failed); the sweep ends, returning
\* normally, only past the last record.
C17_FirstFailureSkipsRecord ==
  [][/\ (pc = "idle" /\ pc' = "outbox") => (ridx' = 1 /\ oidx' = 1)
     /\ SweepStep =>
          /\ hlog' = Append(hlog, LastEntry(hlog'))
          /\ LastEntry(hlog').h = outbox_handlers[oidx]
          /\ LastEntry(hlog').m = outbox_messages[ridx]
          /\ pc' = "outbox"
          /\ ret' = ret
          /\ outbox_messages' = outbox_messages
          /\ LastEntry(hlog').failed => (ridx' = ridx + 1 /\ oidx' = 1)
          /\ (~LastEntry(hlog').failed /\ oidx < Len(outbox_handlers))
               => \/ ridx' = ridx /\ oidx' = oidx + 1
                  \/ ridx' = ridx + 1 /\ oidx' = 1 /\ save_errors' = save_errors + 1
          /\ (~LastEntry(hlog').failed /\ oidx = Len(outbox_handlers))
               => (ridx' = ridx + 1 /\ oidx' = 1)
     /\ (pc = "outbox" /\ pc' = "idle")
          => (ridx > Len(outbox_messages) /\ ret'.kind = "returned")]_vars

\* C17, reached: two records and two handlers; the first handler failed for
\* the first record, whose second handler was skipped, and both handlers
\* were invoked for the second record.
C17_Witness ==
  /\ pc = "outbox"
  /\ Len(outbox_messages) = 2
  /\ Len(outbox_handlers) = 2
  /\ Len(hlog) = 3
  /\ ridx = 3
  /\ hlog[1].failed
  /\ hlog[1].h = outbox_handlers[1] /\ hlog[1].m = outbox_messages[1]
  /\ hlog[2].h = outbox_handlers[1] /\ hlog[2].m = outbox_messages[2]
  /\ hlog[3].h = outbox_handlers[2] /\ hlog[3].m = outbox_messages[2]

\* the records some outbox handler failed for
FailedRecords == {hlog[i].m : i \in {j \in 1..Len(hlog) : hlog[j].failed}}

\* C18: a record an outbox handler failed for stays among the unprocessed
\* records of the repository; a sweep starts with the list the repository
\* returns, and leaves a record of that list only by invoking a handler for
\* it.
C18_FailedRecordRetried ==
  [][/\ FailedRecords \subseteq Range(ListUnprocessed(store))
     /\ (pc = "idle" /\ pc' = "outbox") => outbox_messages' = ListUnprocessed(store)
     /\ (pc = "outbox" /\ ridx' = ridx + 1)
          => (Len(hlog') = Len(hlog) + 1 /\ LastEntry(hlog').m = outbox_messages[ridx])]_vars

\* C18, reached: the first handler failed for the only record in one sweep
\* and was invoked for it again in the next sweep.
C18_Witness ==
  /\ Len(store) = 1
  /\ Len(hlog) = 2
  /\ hlog[1].failed
  /\ hlog[1].h = outbox_handlers[1]
  /\ hlog[2].h = outbox_handlers[1]
  /\ hlog[1].m = store[1].rec
  /\ hlog[2].m = store[1].rec

\* the last registered outbox handler has succeeded for the record
FullyHandled(r) ==
  \E i \in 1..Len(hlog) :
    /\ hlog[i].m = r
    /\ hlog[i].h = outbox_handlers[Len(outbox_handlers)]
    /\ ~hlog[i].failed

\* C19, as stated: while no save has failed, the list a sweep starts with
\* holds no record every handler has succeeded for, and a record is marked
\* processed only when every handler has succeeded for it.
C19_HandledRecordNotReturned ==
  [][/\ \A i \in 1..Len(store) : store[i].processed => FullyHandled(store[i].rec)
     /\ (pc = "idle" /\ pc' = "outbox" /\ save_errors = 0)
          => \A k \in 1..Len(outbox_messages') : ~FullyHandled(outbox_messages'[k])]_vars

\* C19, the failing case reached: the only handler succeeded for the only
\* record and every save succeeded; the next sweep handled the record again.
C19_HandledRecordSweptAgain ==
  /\ save_errors = 0
  /\ Len(outbox_handlers) = 1
  /\ Len(store) = 1
  /\ Len(hlog) = 2
  /\ ~hlog[1].failed
  /\ ~hlog[2].failed
  /\ hlog[1].m = store[1].rec
  /\ hlog[2].m = store[1].rec
  /\ saves = 2

\* the record register_outbox_message is to build for message m
ExpectedRecord(m, id, generated) ==
  [id      |-> IF id = NoId THEN Uuid4(generated) ELSE id,
   type    |-> IF IsCommand(m) THEN "COMMAND" ELSE "EVENT",
   message |-> m.type,
   payload |-> [serialized |-> m]]

\* a call of register_outbox_message is made for a Command or an Event
RegisterCall ==
  /\ nextId' = nextId + 1
  /\ top' = "register_outbox_message"
  /\ IsCommand(message') \/ IsEvent(message')

\* C20, as stated: a call of register_outbox_message for a Command or an
\* Event calls add once, with the record built from the message and the id,
\* which the repository then holds, returns that record and invokes no
\* handler.
C20_RegisterAddsAndReturns ==
  [][RegisterCall =>
       /\ adds' = adds + 1
       /\ uuids' = (IF id_arg' = NoId THEN uuids + 1 ELSE uuids)
       /\ ret' = Returned(<<ExpectedRecord(message', id_arg', uuids')>>)
       /\ store' = Append(store, [rec |-> ExpectedRecord(message', id_arg', uuids'),
                                  processed |-> FALSE])
       /\ hlog' = hlog]_vars

\* C20, the failing case reached: an Event was registered with an id of the
\* caller's; add was called once, raised AssertionError out of
\* register_outbox_message and stored nothing.
C20_AddRejectsRecord ==
  /\ top = "register_outbox_message"
  /\ IsEvent(message)
  /\ id_arg = SuppliedId
  /\ adds = 1
  /\ ret.kind = "raised"
  /\ ret.exc.type = "AssertionError"
  /\ store = <<>>
  /\ hlog = <<>>

(***************************************************************************)
(* The concurrent batch_handle: C11 to C13.                                *)
(***************************************************************************)
\* the workers inside self.handle(msg)
InFlight == {w \in 1..Len(workers) : workers[w].st = "handle"}

\* the cascade of the event can be suspended: a coroutine handler is awaited
\* in its gather
Suspends(m) ==
  /\ IsEvent(m)
  /\ m.type \in DOMAIN event_handlers
  /\ \E i \in 1..Len(event_handlers[m.type]) :
       event_handlers[m.type][i] \in AsyncEventCallables

\* C11: while the concurrent batch_handle runs with max_concurrency = k, at
\* most k workers are inside a single-message handle cascade, however many
\* messages were passed.
C11_AtMostKInFlight ==
  (bus = "AsyncMessageBus" /\ pc = "pool") => Cardinality(InFlight) <= max_concurrency

\* C11, reached: three messages and max_concurrency = 2; the cascades of
\* two events are suspended in their gather and the third message waits in
\* the queue.
C11_Witness ==
  /\ bus = "AsyncMessageBus"
  /\ pc = "pool"
  /\ max_concurrency = 2
  /\ Len(messages) = 3
  /\ Cardinality(InFlight) = 2
  /\ \A w \in InFlight : Suspends(messages[workers[w].idx])
  /\ work_queue = <<3>>
  /\ finished = <<>>

\* the entry's cascade has ended without raising
Succeeded(i) == \E j \in 1..Len(finished) : finished[j].idx = i /\ ~finished[j].raised

\* the lists of the entries that succeeded, in the order of the input
SuccessfulInInputOrder ==
  LET ok == SelectSeq([i \in 1..Len(messages) |-> i], Succeeded)
  IN  [j \in 1..Len(ok) |-> ResultSlot(messages[ok[j]])]

\* C12: when the concurrent batch_handle is over without having been
\* cancelled, it has returned, not raised; the cascade of every input
\* message has ended, once; and the value returned is the list of the
\* results of the entries whose cascade did not raise, in input order.
C12_SuccessfulResultsInInputOrder ==
  (/\ bus = "AsyncMessageBus"
   /\ top = "batch_handle"
   /\ pc = "idle"
   /\ cancellation # "delivered")
    => /\ ret.kind = "returned"
       /\ Len(finished) = Len(messages)
       /\ \A i \in 1..Len(messages) : \E j \in 1..Len(finished) : finished[j].idx = i
       /\ ret.value = SuccessfulInInputOrder

\* C12, reached: of three entries the second raised and was the first to
\* end, the third ended before the first; the results of the first and the
\* third were returned in that order.
C12_Witness ==
  /\ bus = "AsyncMessageBus"
  /\ top = "batch_handle"
  /\ pc = "idle"
  /\ Len(messages) = 3
  /\ Len(finished) = 3
  /\ finished[1] = [idx |-> 2, raised |-> TRUE]
  /\ finished[2] = [idx |-> 3, raised |-> FALSE]
  /\ finished[3] = [idx |-> 1, raised |-> FALSE]
  /\ Suspends(messages[1])
  /\ ret = Returned(<<ResultSlot(messages[1]), ResultSlot(messages[3])>>)

\* C13: from the step in which CancelledError is raised at the await of
\* q.join(), every worker is cancelled and batch_handle has not yet raised;
\* after that step no entry is pulled, no cascade ends with a result or an
\* exception stored; and when the CancelledError has gone out of
\* batch_handle, every worker task has ended.
C13_CancelStopsWorkers ==
  [][/\ (cancellation # "delivered" /\ cancellation' = "delivered")
          => /\ \A w \in 1..Len(workers') : workers'[w].cancel
             /\ ret' = ret
     /\ (cancellation = "delivered" /\ cancellation' = "delivered")
          => /\ pulled' = pulled
             /\ finished' = finished
             /\ batch_slots' = batch_slots
     /\ (cancellation' = "delivered" /\ ret'.kind = "raised")
          => \A w \in 1..Len(workers') : workers'[w].st = "exit"]_vars

\* C13, reached: with one worker and three messages the call was cancelled
\* while the cascade of the first was suspended; that cascade was cancelled
\* (its slot is still None), the other two entries were never pulled, the
\* worker has ended and CancelledError has gone out of batch_handle.
C13_Witness ==
  /\ bus = "AsyncMessageBus"
  /\ top = "batch_handle"
  /\ pc = "idle"
  /\ cancellation = "delivered"
  /\ ret = Raised(CancelledError)
  /\ max_concurrency = 1
  /\ Len(messages) = 3
  /\ Suspends(messages[1])
  /\ pulled = <<1>>
  /\ finished = <<>>
  /\ batch_slots[1] = NoneSlot
  /\ work_queue = <<2, 3>>
  /\ \A w \in 1..Len(workers) : workers[w].st = "exit"

(***************************************************************************)
(* C21 to C30.                                                             *)
(***************************************************************************)
\* the record the last call of register_outbox_message built
BuiltRecord ==
  OutboxMessage(message, TypeOf(message), IF id_arg = NoId THEN Uuid4(uuids) ELSE id_arg)

\* C21, as stated: after register_outbox_message was called for a Command or
\* an Event, the record it built satisfies every assert of add, add has
\* accepted it and the repository holds it as its last row.
C21_RecordSatisfiesAddAsserts ==
  (/\ top = "register_outbox_message"
   /\ IsCommand(message) \/ IsEvent(message))
    => /\ AddAsserts(BuiltRecord)
       /\ ret.kind = "returned"
       /\ store # <<>>
       /\ store[Len(store)].rec = BuiltRecord

\* C21, the failing case reached: a Command was registered without an id;
\* the record got a generated id, add raised AssertionError and the
\* repository holds nothing.
C21_CommandRecordRejected ==
  /\ top = "register_outbox_message"
  /\ IsCommand(message)
  /\ id_arg = NoId
  /\ uuids = 1
  /\ adds = 1
  /\ ~AddAsserts(BuiltRecord)
  /\ ret.kind = "raised"
  /\ ret.exc.type = "AssertionError"
  /\ store = <<>>

\* C22: every handler invocation of the sequential bus is passed the map
\* that holds every key the context held at, and every key written by, any
\* invocation before it; the bus's context holds them all afterwards.
C22_ContextSharedByReference ==
  /\ \A i, j \in 1..Len(ctx_log) :
       i < j => (ctx_log[i].got \cup ctx_log[i].wrote) \subseteq ctx_log[j].got
  /\ \A i \in 1..Len(ctx_log) : (ctx_log[i].got \cup ctx_log[i].wrote) \subseteq context

\* C22, reached: in one batch_handle call the first handler invoked was
\* passed a context without the key k and wrote it; the handler invoked
\* next, for another message, was passed a context that holds k.
C22_Witness ==
  /\ top = "batch_handle"
  /\ Len(ctx_log) >= 2
  /\ Len(hlog) = Len(ctx_log)
  /\ hlog[1].m # hlog[2].m
  /\ "k" \notin ctx_log[1].got
  /\ ctx_log[1].wrote = {"k"}
  /\ "k" \in ctx_log[2].got
  /\ ctx_log[2].wrote = {}

SiblingNotCompleted ==
  \/ hidx <= Len(event_handlers[message.type])
  \/ \E i \in 1..Len(coroutines) : coroutines[i] # NoneEntry

\* C24, as stated: on the asynchronous bus the queue grows within an event
\* step only when every handler of that event has completed.
C24_EmissionsDrainedAfterJoin ==
  [][(bus = "AsyncMessageBus" /\ pc = "event" /\ Len(enq') > Len(enq))
       => ~SiblingNotCompleted']_vars

\* C24, reached: on the asynchronous bus the messages an EventHandlerABC
\* instance emitted are in the queue while a coroutine of the same event has
\* been created and has not run.
C24_DrainedBeforeSiblingRan ==
  /\ bus = "AsyncMessageBus"
  /\ pc = "event"
  /\ hlog # <<>>
  /\ LastEntry(hlog).pop = npop
  /\ LastEntry(hlog).drained # <<>>
  /\ \A i \in 1..Len(LastEntry(hlog).drained) :
       \E j \in 1..Len(queue) : queue[j] = LastEntry(hlog).drained[i]
  /\ \E i \in 1..Len(coroutines) : coroutines[i] # NoneEntry

\* no value occurs twice in the sequence
NoDuplicates(seq) == \A i, j \in 1..Len(seq) : seq[i] = seq[j] => i = j

\* the input positions whose handle cascade is over, in the order they ended
FinishedIdx == [i \in 1..Len(finished) |-> finished[i].idx]

\* C25: in a concurrent batch_handle call with max_concurrency >= 1 no input
\* message is pulled twice and none has its cascade finished twice or
\* without having been pulled; when the call has returned every input
\* message was pulled once and the cascade of every one has finished, with a
\* result or an exception.
C25_EachMessageHandledOnce ==
  (bus = "AsyncMessageBus" /\ top = "batch_handle" /\ max_concurrency >= 1) =>
    /\ NoDuplicates(pulled)
    /\ NoDuplicates(FinishedIdx)
    /\ Range(FinishedIdx) \subseteq Range(pulled)
    /\ Range(pulled) \subseteq 1..Len(messages)
    /\ (pc = "idle" /\ ret.kind = "returned") =>
         /\ Range(pulled) = 1..Len(messages)
         /\ Range(FinishedIdx) = 1..Len(messages)
         /\ \A i \in 1..Len(messages) : batch_slots[i] # NoneSlot

\* C25, reached: a batch_handle call with three messages and two workers has
\* returned; the cascades ended in another order than the input, one of them
\* with an exception.
C25_Witness ==
  /\ bus = "AsyncMessageBus"
  /\ top = "batch_handle"
  /\ max_concurrency = 2
  /\ Len(messages) = 3
  /\ pc = "idle"
  /\ ret.kind = "returned"
  /\ Len(finished) = 3
  /\ FinishedIdx # <<1, 2, 3>>
  /\ \E i \in 1..3 : finished[i].raised

\* the invocations of the history that ended without an exception
Successful(log) == SelectSeq(log, LAMBDA e : ~e.failed)

\* C26: a step of the sweep calls save once when the handler it invoked
\* succeeded and not at all when the handler failed, so the number of save
\* calls is the number of successful invocations; a save that raises ends the
\* handlers of the record as a failed handler does: the next step is the
\* first handler of the next record.
C26_SaveOncePerSuccess ==
  [][SweepStep =>
       /\ ~LastEntry(hlog').failed => saves' = saves + 1
       /\ LastEntry(hlog').failed => (saves' = saves /\ save_errors' = save_errors)
       /\ saves' = Len(Successful(hlog'))
       /\ save_errors' \in {save_errors, save_errors + 1}
       /\ save_errors' = save_errors + 1 => (ridx' = ridx + 1 /\ oidx' = 1)
       /\ LastEntry(hlog').failed => (ridx' = ridx + 1 /\ oidx' = 1)]_vars

\* C26, reached: in a sweep with two handlers the first handler succeeded for
\* the first record and the save after it raised, so the second handler was
\* skipped; for the second record the first handler succeeded and was saved,
\* the second failed and was not.
C26_Witness ==
  /\ Len(outbox_handlers) = 2
  /\ Len(outbox_messages) = 2
  /\ Len(hlog) = 3
  /\ ~hlog[1].failed /\ hlog[1].m = outbox_messages[1]
  /\ ~hlog[2].failed /\ hlog[2].m = outbox_messages[2]
  /\ hlog[3].failed /\ hlog[3].m = outbox_messages[2]
  /\ saves = 2
  /\ save_errors = 1

\* the coroutine functions among the handlers, in registration order
CoroutineHandlers(hs) == SelectSeq(hs, LAMBDA h : h \in AsyncEventCallables)

\* C27: when the queue step of an event ends, the sequential engine has
\* invoked the handlers in registration order and appends the outcomes of
\* those that returned in that order; the asynchronous engine, when it
\* appends the results of the gathered coroutines, appends them in the
\* registration order of their handlers, in whatever order the tasks ended.
C27_OutcomesInRegistrationOrder ==
  [][/\ (bus = "MessageBus" /\ pc = "event" /\ pc' = "loop")
          => /\ HandlersOf(EntriesAt(npop)) = event_handlers[message.type]
             /\ results' = results \o OutcomesOf(EntriesAt(npop))
     /\ (bus = "AsyncMessageBus" /\ pc = "await" /\ results' # results)
          => LET hs == CoroutineHandlers(event_handlers[message.type])
             IN  results' = results \o [i \in 1..Len(hs) |->
                                          RawOutcome(message, Val(hs[i], message))]]_vars

\* C27, reached: on the asynchronous bus the coroutine of ag ended before
\* that of af, registered first, and the results of the step are that of af
\* and then that of ag.
C27_Witness ==
  /\ bus = "AsyncMessageBus"
  /\ pc = "loop"
  /\ Len(hlog) = 2
  /\ hlog[1].h = "ag" /\ hlog[2].h = "af"
  /\ hlog[1].pop = npop /\ hlog[2].pop = npop
  /\ event_handlers[message.type] = <<"af", "ag">>
  /\ results = <<RawOutcome(message, Val("af", message)),
                 RawOutcome(message, Val("ag", message))>>

(***************************************************************************)
(* MessageBus.set_event_handlers and set_command_handler, called between   *)
(* two handle calls.                                                       *)
(***************************************************************************)
\* the handler lists and the command handlers a caller registers
RegisteredLists == {<<>>, <<"f">>}

RegisteredCommandHandlers == {"kf", "KH"}

\* self._event_handlers[event] = handlers
SetEventHandlers(t, hs) ==
  /\ pc = "idle"
  /\ bus = "MessageBus"
  /\ event_handlers' = [u \in DOMAIN event_handlers \cup {t} |->
                          IF u = t THEN hs ELSE event_handlers[u]]
  /\ UNCHANGED <<bus, command_handlers, outbox_handlers, codec, seq_run, frames, repo, pool, outbox,
                 dispatched, async_locals, emitted_messages, pc, top, queue, results,
                 message, hidx, event_results, batch_locals, ret, nextId, hlog, enq,
                 npop, call0>>

\* self._command_handlers[cmd] = handler
SetCommandHandler(t, h) ==
  /\ pc = "idle"
  /\ bus = "MessageBus"
  /\ command_handlers' = [u \in DOMAIN command_handlers \cup {t} |->
                            IF u = t THEN h ELSE command_handlers[u]]
  /\ UNCHANGED <<bus, event_handlers, outbox_handlers, codec, seq_run, frames, repo, pool, outbox,
                 dispatched, async_locals, emitted_messages, pc, top, queue, results,
                 message, hidx, event_results, batch_locals, ret, nextId, hlog, enq,
                 npop, call0>>

\* a caller that registers handlers between the handle calls it makes on the
\* sequential bus
NextRegistry ==
  \/ \E hs \in RegisteredLists : SetEventHandlers("Y", hs)
  \/ \E h \in RegisteredCommandHandlers : SetCommandHandler("K", h)
  \/ \E t \in MsgTypes : bus = "MessageBus" /\ Handle(t)
  \/ Engine
  \/ HandleReturn

SpecRegistry == Init /\ [][NextRegistry]_vars

\* C28: no step of a handle call of the sequential bus, from the call to its
\* return or its exception, changes the handler list of any event type or
\* the handler of any command type; they change only by a registration
\* between two calls.
C28_HandleLeavesRegistry ==
  [][(pc # "idle" \/ pc' # "idle")
       => (event_handlers' = event_handlers /\ command_handlers' = command_handlers)]_vars

\* C28, reached: after a registration for Y, a handle call dispatched an event
\* of the unregistered type and an event with handlers, and returned; the
\* mapping is the one the registration left.
C28_Witness ==
  /\ bus = "MessageBus"
  /\ pc = "idle"
  /\ top = "handle"
  /\ ret.kind = "returned"
  /\ DOMAIN event_handlers = {"X", "Y"}
  /\ event_handlers["Y"] = <<"f">>
  /\ event_handlers["X"] = <<"f", "A">>
  /\ Len(hlog) >= 2
  /\ hlog[1].m.type = "Y"

(***************************************************************************)
(* The same registry and the same input on both engines: a handle call of  *)
(* the sequential bus is kept, then an AsyncMessageBus is constructed with *)
(* the same two mappings and new handler instances, and handles the same   *)
(* message.                                                                *)
(***************************************************************************)
\* a bare function among the handlers of the asynchronous bus: the call runs
\* the function; what it returns is appended to coroutines and is no
\* awaitable, so gather rejects it as it rejects None
AsyncLaunchFunction ==
  /\ pc = "event"
  /\ bus = "AsyncMessageBus"
  /\ hidx <= Len(event_handlers[message.type])
  /\ Len(hlog) < MaxSteps
  /\ LET h == event_handlers[message.type][hidx] IN
       /\ h \in EventCallables
       /\ \E raises \in BOOLEAN :
            LET r == Callable_call(h, message, raises)
            IN  /\ coroutines' = (IF raises THEN coroutines ELSE Append(coroutines, NoneEntry))
                /\ hlog' = Append(hlog, LogEntry(h, message, r, <<>>))
  /\ hidx' = hidx + 1
  /\ UNCHANGED <<registry, codec, seq_run, frames, repo, pool, outbox, dispatched, gathered, loop_state,
                 emitted_messages, pc, top, queue, results, message, event_results,
                 batch_locals, ret, nextId, enq, npop, call0>>

\* the first handle call of a sequential bus
SequentialHandle(t) ==
  /\ bus = "MessageBus"
  /\ ~seq_run.done
  /\ nextId = 1
  /\ Handle(t)

\* the call has returned: what it did is kept, and an AsyncMessageBus is
\* constructed with the same mappings; the handler instances are new
SwitchEngine ==
  /\ bus = "MessageBus"
  /\ ~seq_run.done
  /\ pc = "idle"
  /\ top = "handle"
  /\ ret.kind = "returned"
  /\ seq_run' = [done |-> TRUE, enq |-> enq, outcomes |-> ret.value, hlog |-> hlog]
  /\ bus' = "AsyncMessageBus"
  /\ context' = {}
  /\ ctx_log' = <<>>
  /\ emitted_messages' = [h \in BufferOwners |-> <<>>]
  /\ top' = "none"
  /\ message' = NoMsg
  /\ ret' = NoRet
  /\ nextId' = 1
  /\ hlog' = <<>>
  /\ dispatched' = <<>>
  /\ enq' = <<>>
  /\ npop' = 0
  /\ call0' = 0
  /\ UNCHANGED <<event_handlers, command_handlers, outbox_handlers, codec, frames, repo, pool,
                 outbox, coroutines, gathered, tasks, closed, pc, queue, results, hidx,
                 event_results, batch_locals>>

\* the asynchronous bus is given the message the sequential bus was given
ConcurrentHandle ==
  /\ bus = "AsyncMessageBus"
  /\ seq_run.done
  /\ nextId = 1
  /\ Handle(seq_run.enq[1].type)

NextEquivalence ==
  \/ \E t \in MsgTypes : SequentialHandle(t)
  \/ Engine
  \/ HandleReturn
  \/ SwitchEngine
  \/ ConcurrentHandle
  \/ AsyncLaunchObject
  \/ AsyncLaunchFunction
  \/ AsyncGatherTypeError
  \/ AsyncGatherEmpty
  \/ AsyncCommandNotFound
  \/ AsyncCommandObject
  \/ AsyncCommandCallable

\* the sequential bus with each registry it can be given
InitEquivalence == Init /\ bus = "MessageBus"

SpecEquivalence == InitEquivalence /\ [][NextEquivalence]_vars

\* the invocations of a history: which handler, for which message, emitting what
Invocations(log) ==
  [i \in 1..Len(log) |-> [h |-> log[i].h, m |-> log[i].m, emitted |-> log[i].emitted]]

\* both engines have returned from handle for the same registry and input,
\* and in both every handler was invoked for the same messages, emitted the
\* same and succeeded
BothReturned ==
  /\ seq_run.done
  /\ bus = "AsyncMessageBus"
  /\ pc = "idle"
  /\ top = "handle"
  /\ ret.kind = "returned"
  /\ \A i \in 1..Len(hlog) : ~hlog[i].failed
  /\ \A i \in 1..Len(seq_run.hlog) : ~seq_run.hlog[i].failed
  /\ Invocations(hlog) = Invocations(seq_run.hlog)

\* C29, as stated: the concurrent handle enqueued and dispatched the messages
\* the sequential handle did, in that order, and returns an outcome entry
\* for each invocation the sequential handle returns one for, in that order.
C29_ConcurrentEqualsSequential ==
  BothReturned =>
    /\ enq = seq_run.enq
    /\ [i \in 1..Len(ret.value) |-> ret.value[i].msg]
         = [i \in 1..Len(seq_run.outcomes) |-> seq_run.outcomes[i].msg]

\* C29, reached: both engines invoked the same handlers for the same
\* messages of a cascade of two; the sequential handle returned an entry for
\* each invocation, the concurrent handle returned none.
C29_ConcurrentDropsOutcomes ==
  /\ BothReturned
  /\ Len(hlog) = 2
  /\ enq = seq_run.enq
  /\ Len(enq) = 2
  /\ Len(seq_run.outcomes) = 2
  /\ ret.value = <<>>

\* type t caused type u: an invocation for a message of type t emitted a
\* message of type u
CausedTypes ==
  UNION {{<<hlog[i].m.type, hlog[i].emitted[j].type>> : j \in 1..Len(hlog[i].emitted)}
           : i \in 1..Len(hlog)}

\* the pairs joined by a path of one or two pairs of R
Compose(R) == R \cup {<<pq[1][1], pq[2][2]>> : pq \in {x \in R \X R : x[1][2] = x[2][1]}}

\* no type has caused, through any chain of emissions, a message of its own
\* type
NoTypeCausesItself ==
  \A t \in MsgTypes : <<t, t>> \notin Compose(Compose(CausedTypes))

\* the messages popped in this handle call, in the order they were popped
PoppedMessages == SubSeq(enq, 1, Popped)

\* C30, as stated: in a handle call of the sequential bus in which no type
\* causes itself, no message is popped twice; when the call has returned the
\* queue is empty and every message that was enqueued has been popped.
C30_EachMessagePoppedOnce ==
  (bus = "MessageBus" /\ top = "handle" /\ NoTypeCausesItself) =>
    /\ NoDuplicates(PoppedMessages)
    /\ (pc = "idle" /\ ret.kind = "returned")
         => (queue = <<>> /\ Popped = Len(enq))

\* C30, the failing case reached: in the first handle call of the bus the
\* handler of the message just dispatched emitted nothing, and the queue
\* holds that same message again: the loop is where it was before the step.
C30_DispatchedMessageQueuedAgain ==
  /\ bus = "MessageBus"
  /\ top = "handle"
  /\ call0 = 0
  /\ NoTypeCausesItself
  /\ pc = "loop"
  /\ queue = <<message>>
  /\ Len(EntriesAt(npop)) = 1
  /\ EntriesAt(npop)[1].m = message
  /\ EntriesAt(npop)[1].emitted = <<>>
  /\ ~EntriesAt(npop)[1].failed

(***************************************************************************)
(* The concurrent batch_handle on an event loop that runs every task that  *)
(* is ready; the caller does not cancel the call.                          *)
(***************************************************************************)
\* the steps the event loop takes for the tasks of a batch_handle call
EventLoopStep ==
  \/ \E w \in WorkerIds : WorkerGet(w)
  \/ \E w \in WorkerIds : WorkerHandleDone(w)
  \/ JoinDone
  \/ \E w \in WorkerIds : WorkerCancelled(w)
  \/ GatherWorkersDone

NextAsyncBatchLoop ==
  \/ \E ts \in AsyncBatchInputs, k \in Concurrency : AsyncBatchHandle(ts, k)
  \/ EventLoopStep

\* the event loop does not stop while a task is ready to run
SpecAsyncBatchFair ==
  Init /\ [][NextAsyncBatchLoop]_vars /\ WF_vars(EventLoopStep)

\* C31, as stated: every batch_handle call of the asynchronous bus, for each
\* list of messages and each max_concurrency >= 0, returns in the end.
C31_BatchHandleReturns ==
  (bus = "AsyncMessageBus" /\ pc = "pool") ~> (pc = "idle" /\ ret.kind = "returned")

\* C31, the failing case reached: batch_handle was called with
\* max_concurrency = 0 and a message; no worker was created, the entry is
\* not done and the caller waits in q.join(), where no step of the event
\* loop is left to take.
C31_JoinWithoutWorkers ==
  /\ bus = "AsyncMessageBus"
  /\ pc = "pool"
  /\ max_concurrency = 0
  /\ workers = <<>>
  /\ caller = "join"
  /\ unfinished_tasks > 0
  /\ work_queue # <<>>
  /\ ~ENABLED EventLoopStep

(***************************************************************************)
(* AsyncMessageBus.batch_handle with the handle calls of its workers run   *)
(* by the asynchronous engine.  One coroutine runs at a time, up to its    *)
(* next await: pc, queue, results, message, gathered and enq are the       *)
(* locals of the handle call of the worker that runs (frames.cur); the     *)
(* locals of a handle call suspended in its gather are kept in             *)
(* frames.saved, and pc = "pool" while no worker runs.                     *)
(***************************************************************************)
\* the lists of messages a caller passes
CascadeInputs == {<<"X", "X">>, <<"Y", "X">>, <<"X", "K">>}

\* batch_handle is called while no call of it is under way
CascadesBatchHandle(ts, k) ==
  /\ frames = NoFrames
  /\ \A i \in DOMAIN tasks : tasks[i].st \in {"done", "failed"}
  /\ AsyncBatchHandle(ts, k)

\* res = await self.handle(msg) of worker w: results = [], queue = [message]
CascadeStart(w) ==
  /\ pc = "pool"
  /\ frames.cur = 0
  /\ w \in 1..Len(workers)
  /\ workers[w].st = "handle"
  /\ ~workers[w].cancel
  /\ ~frames.saved[w].live
  /\ frames' = [frames EXCEPT !.cur = w]
  /\ queue' = <<messages[workers[w].idx]>>
  /\ enq' = <<messages[workers[w].idx]>>
  /\ results' = <<>>
  /\ call0' = npop
  /\ pc' = "loop"
  /\ UNCHANGED <<registry, codec, seq_run, repo, pool, outbox, loop_state, coroutines,
                 gathered, emitted_messages, top, message, hidx, event_results,
                 batch_locals, ret, nextId, hlog, dispatched, npop>>

\* the gather of the running handle call has a task that is not over and
\* none that failed
GatherWaits(ts, idxs) ==
  /\ \E i \in idxs : ts[i].st \notin {"done", "failed"}
  /\ \A i \in idxs : ts[i].st # "failed"

\* await asyncio.gather(...) suspends the handle call of the running worker
CascadeSuspend ==
  /\ pc = "await"
  /\ frames.cur # 0
  /\ GatherWaits(tasks, gathered)
  /\ frames' = [cur |-> 0,
                saved |-> [frames.saved EXCEPT ![frames.cur] =
                             [live |-> TRUE, queue |-> queue, results |-> results,
                              message |-> message, gathered |-> gathered, enq |-> enq]]]
  /\ queue' = <<>>
  /\ results' = <<>>
  /\ message' = NoMsg
  /\ gathered' = {}
  /\ enq' = <<>>
  /\ pc' = "pool"
  /\ UNCHANGED <<registry, codec, seq_run, repo, pool, outbox, loop_state, coroutines,
                 emitted_messages, top, hidx, event_results, batch_locals, ret, nextId,
                 hlog, dispatched, npop, call0>>

\* the gather of worker w is over: the event loop resumes its handle call
CascadeResume(w) ==
  /\ pc = "pool"
  /\ frames.cur = 0
  /\ frames.saved[w].live
  /\ ~GatherWaits(tasks, frames.saved[w].gathered)
  /\ frames' = [cur |-> w, saved |-> [frames.saved EXCEPT ![w] = NoFrame]]
  /\ queue' = frames.saved[w].queue
  /\ results' = frames.saved[w].results
  /\ message' = frames.saved[w].message
  /\ gathered' = frames.saved[w].gathered
  /\ enq' = frames.saved[w].enq
  /\ pc' = "await"
  /\ UNCHANGED <<registry, codec, seq_run, repo, pool, outbox, loop_state, coroutines,
                 emitted_messages, top, hidx, event_results, batch_locals, ret, nextId,
                 hlog, dispatched, npop, call0>>

\* the handle call of the running worker is over: results[idx] = res or
\* results[idx] = e, then q.task_done(), and the worker is back at q.get()
CascadeOver(raised) ==
  /\ frames.cur # 0
  /\ top = "batch_handle"
  /\ LET w == frames.cur
         idx == workers[w].idx
         m == messages[idx]
     IN  /\ batch_slots' = StoreResult(batch_slots, idx,
                                       IF raised THEN ExceptionSlot(m) ELSE ResultSlot(m))
         /\ finished' = Append(finished, [idx |-> idx, raised |-> raised])
         /\ workers' = [workers EXCEPT ![w] = [st |-> "get", idx |-> 0, cancel |-> FALSE]]
  /\ unfinished_tasks' = unfinished_tasks - 1
  /\ frames' = [frames EXCEPT !.cur = 0]
  /\ queue' = <<>>
  /\ results' = <<>>
  /\ message' = NoMsg
  /\ enq' = <<>>
  /\ ret' = NoRet
  /\ pc' = "pool"
  /\ UNCHANGED <<registry, codec, seq_run, repo, outbox, loop_state, coroutines, gathered,
                 emitted_messages, top, hidx, event_results, batch_locals, nextId, hlog,
                 dispatched, npop, call0, max_concurrency, work_queue, caller,
                 cancellation, pulled>>

\* the queue is empty: handle returns its results to the worker
CascadeReturn ==
  /\ pc = "loop"
  /\ queue = <<>>
  /\ CascadeOver(FALSE)

\* handle raised: the worker's except clause keeps the exception
CascadeRaised ==
  /\ pc = "idle"
  /\ ret.kind = "raised"
  /\ CascadeOver(TRUE)

\* the event loop runs a task up to an await of its own: the body of the
\* coroutine function has begun and is not over
TaskBegin(i) ==
  /\ pc \in {"await", "pool"}
  /\ tasks[i].st = "pending"
  /\ tasks' = [tasks EXCEPT ![i].st = "running"]
  /\ UNCHANGED <<registry, codec, seq_run, frames, repo, pool, outbox, dispatched, coroutines,
                 gathered, context, ctx_log, closed, emitted_messages, pc, top, queue,
                 results, message, hidx, event_results, batch_locals, ret, nextId, hlog,
                 enq, npop, call0>>

\* the event loop resumes a task that has begun: the body returns or raises
TaskFinish(i) ==
  /\ pc \in {"await", "pool"}
  /\ tasks[i].st = "running"
  /\ Len(hlog) < MaxSteps
  /\ \E raises \in BOOLEAN :
       LET r == Callable_call(tasks[i].h, tasks[i].m, raises)
       IN  /\ tasks' = [tasks EXCEPT ![i].st = IF raises THEN "failed" ELSE "done",
                                     ![i].result = r.result]
           /\ hlog' = Append(hlog, LogEntryAt(tasks[i].h, tasks[i].m, r, <<>>, tasks[i].pop))
  /\ UNCHANGED <<registry, codec, seq_run, frames, repo, pool, outbox, dispatched, coroutines,
                 gathered, context, ctx_log, closed, emitted_messages, pc, top, queue,
                 results, message, hidx, event_results, batch_locals, ret, nextId, enq,
                 npop, call0>>

\* a caller of the concurrent batch_handle, the workers and the event loop
NextAsyncCascades ==
  \/ \E ts \in CascadeInputs, k \in {1, 2} : CascadesBatchHandle(ts, k)
  \/ \E w \in WorkerIds : WorkerGet(w)
  \/ \E w \in WorkerIds : CascadeStart(w)
  \/ PopEvent
  \/ PopUnregisteredEvent
  \/ PopCommand
  \/ AsyncEngine
  \/ \E i \in DOMAIN tasks : TaskBegin(i)
  \/ \E i \in DOMAIN tasks : TaskFinish(i)
  \/ CascadeSuspend
  \/ \E w \in WorkerIds : CascadeResume(w)
  \/ CascadeReturn
  \/ CascadeRaised
  \/ JoinDone
  \/ \E w \in WorkerIds : WorkerCancelled(w)
  \/ GatherWorkersDone

SpecAsyncCascades == Init /\ [][NextAsyncCascades]_vars

\* C32, as stated: in the concurrent batch_handle every message the handle
\* call of the running worker has enqueued after its input was emitted by a
\* handler while it processed a message of that same handle call.
C32_EmissionsStayInCascade ==
  (bus = "AsyncMessageBus" /\ top = "batch_handle" /\ frames.cur # 0) =>
    \A i \in 2..Len(enq) :
      \E j \in 1..Len(hlog) :
        /\ enq[i] \in Range(hlog[j].emitted)
        /\ hlog[j].m \in Range(enq)

\* C32, the failing case reached: the handle call for the second batch entry
\* has enqueued a message that a handler emitted, and the engine enqueued,
\* while the first batch entry was processed.
C32_EmissionCrossesCascades ==
  /\ bus = "AsyncMessageBus"
  /\ top = "batch_handle"
  /\ frames.cur # 0
  /\ workers[frames.cur].idx = 2
  /\ Len(enq) = 2
  /\ enq[1] = messages[2]
  /\ \E j \in 1..Len(hlog) :
       /\ hlog[j].m = messages[1]
       /\ enq[2] \in Range(hlog[j].emitted)
       /\ enq[2] \in Range(hlog[j].drained)

\* C33, as stated: the engine of the asynchronous bus does not close the
\* session of the context while the body of an event handler it started has
\* begun and is not over.
C33_SessionNotClosedUnderHandler ==
  [][closed' > closed => \A i \in DOMAIN tasks : tasks[i].st # "running"]_vars

\* C33, the failing case reached: in a batch_handle with two workers the
\* fan-out step of one entry has just ended and closed the session, while a
\* handler of the other entry, whose handle call is suspended in its gather,
\* has begun and is not over.
C33_ClosedUnderRunningHandler ==
  /\ bus = "AsyncMessageBus"
  /\ top = "batch_handle"
  /\ max_concurrency = 2
  /\ "db_session" \in context
  /\ frames.cur # 0
  /\ pc = "loop"
  /\ closed = 1
  /\ results # <<>>
  /\ \E k \in DOMAIN tasks : tasks[k].st = "done" /\ tasks[k].m = message
  /\ \E w \in 1..Len(workers) :
       /\ w # frames.cur
       /\ frames.saved[w].live
       /\ \E i \in frames.saved[w].gathered :
            tasks[i].st = "running" /\ tasks[i].m # message

====
